---- MODULE Spec2Model ----
(***************************************************************************)
(* fencemaster: a mutating admission webhook that stamps a Rancher project *)
(* annotation on namespaces.                                               *)
(*                                                                         *)
(* This module models pkg/webhook/handler.go (Handler.mutate, the patch    *)
(* it builds and escapeJSONPointer) against the RancherClient interface,   *)
(* and pkg/rancher/client.go (the resolver: its two caches, their locks,   *)
(* the retry loop, the sweep, ClearCache and CacheStats).                  *)
(*                                                                         *)
(* Strings that the code takes apart or puts together (annotation keys,    *)
(* annotation values, JSON-Pointer paths) are sequences of atoms.  The     *)
(* atoms "/", "~", "0", "1" and ":" are the single characters; any other   *)
(* atom stands for a run of characters holding none of these.              *)
(***************************************************************************)
EXTENDS Integers, Sequences, FiniteSets, TLC

VARIABLES
    strictMode,         \* Handler.strictMode
    dryRun,             \* Handler.dryRun
    projectLabel,       \* Handler.projectLabel
    projectAnnotation,  \* Handler.projectAnnotation
    pc,                 \* per request: position inside HandleMutate/mutate
    req,                \* per request: [clusterName, request]
    clusterID,          \* per request: local clusterID of mutate
    resp,               \* per request: the (response, status) mutate returned
    calls,              \* per request: the RancherClient calls made, in order
    store,              \* the namespace as persisted by the API server
    stamp,              \* the (cluster, project) identifiers of the last patch persisted
    now,                \* time.Now(), in units of the cache clock
    cacheTTL,           \* Client.cacheTTL
    clusterCache,       \* Client.clusterCache
    clusterMu,          \* Client.clusterMu
    projectCache,       \* Client.projectCache
    projectMu,          \* Client.projectMu
    rc,                 \* per goroutine: the GetClusterID/GetProjectID call it runs
    admin,              \* the goroutine calling ClearCache
    stats,              \* the goroutine calling CacheStats
    sweep,              \* the goroutine of startCacheEviction
    preClear            \* the keys whose entries were cached when the running ClearCache began

clientVars == <<now, cacheTTL, clusterCache, clusterMu, projectCache, projectMu,
                rc, admin, stats, sweep, preClear>>

handlerVars == <<strictMode, dryRun, projectLabel, projectAnnotation,
                 pc, req, clusterID, resp, calls, store, stamp>>

vars == <<handlerVars, clientVars>>

-----------------------------------------------------------------------------
(* Strings *)

EmptyStr == << >>

\* strings.NewReplacer("~", "~0", "/", "~1").Replace(s): one pass over s,
\* each "~" and each "/" replaced, every other character copied.
RECURSIVE escapeNoSlash(_)
escapeNoSlash(s) ==
    IF s = << >> THEN << >>
    ELSE (IF Head(s) = "~" THEN <<"~", "0">> ELSE <<Head(s)>>)
         \o escapeNoSlash(Tail(s))

\* strings.TrimPrefix(s, prefix): s without the prefix if it begins with it, else s
TrimPrefix(s, prefix) ==
    IF Len(s) >= Len(prefix) /\ SubSeq(s, 1, Len(prefix)) = prefix
    THEN SubSeq(s, Len(prefix) + 1, Len(s))
    ELSE s

TrimSuffixKept(s, suffix) == s

\* strings.TrimSuffix(s, suffix): s without the suffix if it ends with it, else s
TrimSuffix(s, suffix) ==
    IF Len(s) >= Len(suffix) /\ SubSeq(s, Len(s) - Len(suffix) + 1, Len(s)) = suffix
    THEN SubSeq(s, 1, Len(s) - Len(suffix))
    ELSE s

\* HandleMutate: the cluster name of r.URL.Path
clusterNameOf(path) == TrimSuffix(TrimPrefix(path, <<"/", "mutate", "/">>), <<"/">>)

RECURSIVE escapeTwoPasses(_)
escapeTwoPasses(s) ==
    IF s = << >> THEN << >>
    ELSE (IF Head(s) = "~" THEN <<"~", "0">>
          ELSE IF Head(s) = "/" THEN <<"~", "0", "1">>
          ELSE <<Head(s)>>)
         \o escapeTwoPasses(Tail(s))

RECURSIVE escapeJSONPointer(_)
escapeJSONPointer(s) ==
    IF s = << >> THEN << >>
    ELSE (IF Head(s) = "~" THEN <<"~", "0">>
          ELSE IF Head(s) = "/" THEN <<"~", "1">>
          ELSE <<Head(s)>>)
         \o escapeJSONPointer(Tail(s))

\* fmt.Sprintf("/metadata/annotations/%s", escapeJSONPointer(key))
AnnotationsPath == <<"/", "metadata", "/", "annotations">>

patchPath(key) == AnnotationsPath \o <<"/">> \o escapeJSONPointer(key)

\* fmt.Sprintf("%s:%s", clusterID, projectID)
valueSwapped(c, p) == <<p, ":", c>>

annotationValue(c, p) == <<c, ":", p>>

-----------------------------------------------------------------------------
(* Go maps, namespaces and raw payloads *)

\* A map[string]string: nil, or a set of <<key, value>> pairs with unique keys.
NilMap == [isNil |-> TRUE, kv |-> {}]

MakeMap(pairs) == [isNil |-> FALSE, kv |-> pairs]

HasKey(m, k) == \E e \in m.kv : e[1] = k

\* m[k]: the zero value `zero` when the key is absent (also on a nil map)
Get(m, k, zero) == IF HasKey(m, k) THEN (CHOOSE e \in m.kv : e[1] = k)[2] ELSE zero

\* corev1.Namespace, as far as mutate reads it: ObjectMeta.Labels, ObjectMeta.Annotations
Namespace(labels, annotations) == [labels |-> labels, annotations |-> annotations]

EmptyNamespace == Namespace(NilMap, NilMap)

\* runtime.RawExtension.Raw: nil, bytes that json.Unmarshal rejects, or the JSON of a namespace
RawNil == [state |-> "nil", ns |-> EmptyNamespace]

RawInvalid == [state |-> "invalid", ns |-> EmptyNamespace]

RawJSON(ns) == [state |-> "json", ns |-> ns]

\* json.Unmarshal(raw, &namespace) returns an error (nil input is "unexpected end of JSON input")
unmarshalNeverFails(raw) == FALSE

unmarshalFails(raw) == raw.state # "json"

-----------------------------------------------------------------------------
(* Decisions *)

StatusAllowed == "allowed"
StatusDenied == "denied"
StatusError == "error"
StatusSkipped == "skipped"
StatusMutated == "mutated"
StatusDryRun == "dry_run"

NoPatch == << >>

PatchTypeNone == "none"

PatchTypeJSONPatch == "JSONPatch"

\* (&admissionv1.AdmissionResponse{...}, status)
Decision(allowed, patch, patchType, message, status) ==
    [Allowed |-> allowed, Patch |-> patch, PatchType |-> patchType,
     Message |-> message, status |-> status]

AllowNoPatch(status) == Decision(TRUE, NoPatch, PatchTypeNone, << >>, status)

Deny(message, status) == Decision(FALSE, NoPatch, PatchTypeNone, message, status)

NoDecision == Decision(FALSE, NoPatch, PatchTypeNone, << >>, "none")

-----------------------------------------------------------------------------
(* Handler.mutate, in the order of its code *)

\* req.Kind.Kind != "Namespace"
kindNotFiltered(r) == FALSE

notNamespace(r) == r.Kind # "Namespace"

\* projectName, hasProjectLabel := namespace.Labels[h.projectLabel]
labelAlwaysPresent(ns) == TRUE

hasProjectLabel(ns) == HasKey(ns.labels, projectLabel)

projectNameOf(ns) == Get(ns.labels, projectLabel, "")

\* currentAnnotation := namespace.Annotations[h.projectAnnotation]
currentAnnotation(ns) == Get(ns.annotations, projectAnnotation, EmptyStr)

\* The UPDATE short-circuit: the old object is there, parses, carries the same
\* project-label value, and the new object's annotation is not empty.
updateUnchanged(r) ==
    /\ r.Operation = "UPDATE"
    /\ r.OldObject.state # "nil"
    /\ ~unmarshalFails(r.OldObject)
    /\ Get(r.OldObject.ns.labels, projectLabel, "") = projectNameOf(r.Object.ns)
    /\ currentAnnotation(r.Object.ns) # EmptyStr

\* GetClusterID returned err
clusterFailureAllow(err) == AllowNoPatch(StatusAllowed)

clusterFailure(err) ==
    IF strictMode
    THEN Deny(<<"failed to get cluster ID", err>>, StatusDenied)
    ELSE AllowNoPatch(StatusAllowed)

\* GetProjectID returned err
projectFailureAllow(projectName, err) == AllowNoPatch(StatusAllowed)

projectFailureDeny(projectName, err) ==
    Deny(<<"failed to get project ID for", projectName, err>>, StatusDenied)

projectFailure(projectName, err) ==
    IF strictMode
    THEN Deny(<<"failed to get project ID for", projectName, err>>, StatusDenied)
    ELSE AllowNoPatch(StatusAllowed)

\* namespace.Annotations != nil && namespace.Annotations[h.projectAnnotation] == projectAnnotationValue
neverCorrect(ns, value) == FALSE

alreadyCorrect(ns, value) ==
    /\ ~ns.annotations.isNil
    /\ Get(ns.annotations, projectAnnotation, EmptyStr) = value

\* h.dryRun
dryRunIgnored == FALSE

dryRunEnabled == dryRun

\* One JSON-Patch operation: {"op": "add", "path": path, "value": value}
AddObject(path) == [op |-> "add", path |-> path, value |-> [isObject |-> TRUE, str |-> EmptyStr]]

AddString(path, v) == [op |-> "add", path |-> path, value |-> [isObject |-> FALSE, str |-> v]]

\* patch := two operations; if namespace.Annotations != nil, patch = one operation
buildPatchAlwaysTwo(ns, value) ==
    << AddObject(AnnotationsPath), AddString(patchPath(projectAnnotation), value) >>

buildPatchUnescaped(ns, value) ==
    IF ns.annotations.isNil
    THEN << AddObject(AnnotationsPath),
            AddString(AnnotationsPath \o <<"/">> \o projectAnnotation, value) >>
    ELSE << AddString(AnnotationsPath \o <<"/">> \o projectAnnotation, value) >>

buildPatch(ns, value) ==
    IF ns.annotations.isNil
    THEN << AddObject(AnnotationsPath), AddString(patchPath(projectAnnotation), value) >>
    ELSE << AddString(patchPath(projectAnnotation), value) >>

\* mutate up to the call of GetClusterID: the decision it returns before any lookup,
\* or NoDecision when it goes on to call GetClusterID
beforeLookup(r) ==
    IF notNamespace(r) THEN AllowNoPatch(StatusSkipped)
    ELSE IF unmarshalFails(r.Object)
         THEN Deny(<<"failed to unmarshal namespace">>, StatusError)
    ELSE IF ~hasProjectLabel(r.Object.ns) THEN AllowNoPatch(StatusSkipped)
    ELSE IF updateUnchanged(r) THEN AllowNoPatch(StatusSkipped)
    ELSE NoDecision

afterLookupUntyped(ns, c, p) ==
    LET value == annotationValue(c, p) IN
    IF alreadyCorrect(ns, value) THEN AllowNoPatch(StatusSkipped)
    ELSE IF dryRunEnabled THEN AllowNoPatch(StatusDryRun)
    ELSE Decision(TRUE, buildPatch(ns, value), PatchTypeNone, << >>, StatusMutated)

\* mutate after both lookups succeeded.  json.Marshal of a []map[string]any holding
\* strings and a map[string]string cannot fail, so that branch returns nothing.
afterLookup(ns, c, p) ==
    LET value == annotationValue(c, p) IN
    IF alreadyCorrect(ns, value) THEN AllowNoPatch(StatusSkipped)
    ELSE IF dryRunEnabled THEN AllowNoPatch(StatusDryRun)
    ELSE Decision(TRUE, buildPatch(ns, value), PatchTypeJSONPatch, << >>, StatusMutated)

\* What a RancherClient call returns: (id, nil) or ("", err)
Found(id) == [err |-> "", id |-> id]

Failed(err) == [err |-> err, id |-> ""]

\* mutate as a whole, given what GetClusterID and GetProjectID return when called
mutate(r, cres, pres) ==
    IF beforeLookup(r) # NoDecision THEN beforeLookup(r)
    ELSE IF cres.err # "" THEN clusterFailure(cres.err)
    ELSE IF pres.err # "" THEN projectFailure(projectNameOf(r.Object.ns), pres.err)
    ELSE afterLookup(r.Object.ns, cres.id, pres.id)

-----------------------------------------------------------------------------
(* RFC 6902 "add" with RFC 6901 pointers, as the API server applies the patch *)

\* Replace every "~" followed by `second` by `with`, left to right
RECURSIVE replaceTilde(_, _, _)
replaceTilde(s, second, with) ==
    IF Len(s) < 2 THEN s
    ELSE IF s[1] = "~" /\ s[2] = second
         THEN <<with>> \o replaceTilde(SubSeq(s, 3, Len(s)), second, with)
         ELSE <<s[1]>> \o replaceTilde(Tail(s), second, with)

\* RFC 6901 section 4: first "~1" to "/", then "~0" to "~"
unescapeJSONPointer(tok) == replaceTilde(replaceTilde(tok, "1", "/"), "0", "~")

\* The reference tokens of a pointer: each is prefixed by "/"
RECURSIVE pointerTokens(_)
pointerTokens(path) ==
    IF path = << >> THEN << >>
    ELSE LET rest == Tail(path)
             cut  == IF \E n \in 1..Len(rest) : rest[n] = "/"
                     THEN CHOOSE n \in 1..Len(rest) :
                            rest[n] = "/" /\ \A m \in 1..(n - 1) : rest[m] # "/"
                     ELSE Len(rest) + 1
         IN  << unescapeJSONPointer(SubSeq(rest, 1, cut - 1)) >>
             \o pointerTokens(SubSeq(rest, cut, Len(rest)))

Patched(ok, ns) == [ok |-> ok, ns |-> ns]

\* One "add" on a namespace: at /metadata/annotations it sets the member to the
\* value; at /metadata/annotations/<key> the annotations object must exist and
\* the key is added or, if present, replaced.
applyAdd(ns, o) ==
    LET toks == pointerTokens(o.path) IN
    IF o.path = << >> \/ Head(o.path) # "/" THEN Patched(FALSE, ns)
    ELSE IF toks = << <<"metadata">>, <<"annotations">> >>
    THEN IF o.value.isObject
         THEN Patched(TRUE, Namespace(ns.labels, MakeMap({})))
         ELSE Patched(FALSE, ns)
    ELSE IF Len(toks) = 3 /\ toks[1] = <<"metadata">> /\ toks[2] = <<"annotations">>
    THEN IF ns.annotations.isNil \/ o.value.isObject
         THEN Patched(FALSE, ns)
         ELSE Patched(TRUE, Namespace(ns.labels,
                  MakeMap({e \in ns.annotations.kv : e[1] # toks[3]}
                          \cup {<<toks[3], o.value.str>>})))
    ELSE Patched(FALSE, ns)

RECURSIVE applyPatch(_, _)
applyPatch(ns, patch) ==
    IF patch = << >> THEN Patched(TRUE, ns)
    ELSE LET first == applyAdd(ns, Head(patch)) IN
         IF first.ok THEN applyPatch(first.ns, Tail(patch)) ELSE first

-----------------------------------------------------------------------------
(* The inputs *)

ClusterNames == {"prod"}

\* How many cluster and project identifiers the backend can return
NumClusters == 1

NumProjects == 2

ClusterIDList == <<"c-m-abc123", "c-m-def456", "c-m-ghi789">>

ProjectIDList == <<"p-xyz789", "p-other", "p-third", "p-fourth">>

ClusterIDs == {ClusterIDList[k] : k \in 1..NumClusters}

ProjectIDs == {ProjectIDList[k] : k \in 1..NumProjects}

LookupErrors == {"not_found", "retries_exhausted", "context_canceled"}

ClusterResults == {Found(c) : c \in ClusterIDs} \cup {Failed(e) : e \in LookupErrors}

ProjectResults == {Found(p) : p \in ProjectIDs} \cup {Failed(e) : e \in LookupErrors}

ProjectLabels == {"project"}

KeyRancher == <<"field.cattle.io", "/", "projectId">>

KeyOdd == <<"~", "and", "/", "mixed">>

AnnotationKeys == {KeyRancher, KeyOdd}

Absent == <<"<absent>">>

\* Empty, a value no lookup yields, and the values of the first cluster's projects
AnnotationValues ==
    {EmptyStr, <<"stale">>} \cup {<<ClusterIDList[1], ":", p>> : p \in ProjectIDs}

AnnotationMaps ==
    {NilMap} \cup
    { MakeMap({<<k, f[k]>> : k \in {x \in AnnotationKeys : f[x] # Absent}}) :
        f \in [AnnotationKeys -> AnnotationValues \cup {Absent}] }

LabelMaps ==
    {NilMap, MakeMap({<<"team", "x">>})} \cup
    { MakeMap({<<l, v>>}) : l \in ProjectLabels, v \in {"", "platform", "other"} }

Namespaces == { Namespace(l, a) : l \in LabelMaps, a \in AnnotationMaps }

Objects == {RawInvalid} \cup {RawJSON(ns) : ns \in Namespaces}

OldObjects == {RawNil, RawInvalid} \cup {RawJSON(Namespace(l, NilMap)) : l \in LabelMaps}

\* admissionv1.AdmissionRequest, as far as mutate reads it
Request(kind, operation, object, old) ==
    [Kind |-> kind, Operation |-> operation, Object |-> object, OldObject |-> old]

\* Payloads of requests for another kind: unparseable, or any labels without annotations
OtherObjects == {RawInvalid} \cup {RawJSON(Namespace(l, NilMap)) : l \in LabelMaps}

Requests ==
    { Request("Namespace", "CREATE", o, RawNil) : o \in Objects } \cup
    { Request("Namespace", "UPDATE", o, old) : o \in Objects, old \in OldObjects } \cup
    { Request("Pod", "CREATE", o, RawNil) : o \in OtherObjects } \cup
    { Request("Pod", "UPDATE", o, old) : o \in OtherObjects, old \in OldObjects } \cup
    { Request(k, "DELETE", RawNil, old) : k \in {"Namespace", "Pod"}, old \in OldObjects }

-----------------------------------------------------------------------------
(* pkg/rancher/client.go: the resolver *)

\* The clock runs from 0 to MaxTime; the TTL is at most MaxTTL
MaxTime == 2

MaxTTL == 1

\* The backend lists at most MaxItems projects
MaxItems == 2

maxRetries == 3

\* time.Duration values, in milliseconds
initialBackoff == 100

maxBackoff == 2000

min(a, b) == IF a < b THEN a ELSE b

\* The errors the dynamic client returns: an API status error is named by its
\* reason (apierrors.NewTimeoutError(...) is "Timeout"), any other error by
\* what it is.
IsServerTimeout(err) == err = "ServerTimeout"

IsTimeout(err) == err = "Timeout"

IsTooManyRequests(err) == err = "TooManyRequests"

IsServiceUnavailable(err) == err = "ServiceUnavailable"

IsInternalError(err) == err = "InternalError"

retryableButInternal(err) ==
    \/ IsServerTimeout(err) \/ IsTimeout(err)
    \/ IsTooManyRequests(err)
    \/ IsServiceUnavailable(err)

isRetryableError(err) ==
    \/ IsServerTimeout(err) \/ IsTimeout(err)
    \/ IsTooManyRequests(err)
    \/ IsServiceUnavailable(err)
    \/ IsInternalError(err)

cacheEntryNoValue(v, e) == [ok |-> TRUE, value |-> << >>, expiresAt |-> e]

\* The result of indexing a map[string]cacheEntry at a key it does not hold
NoEntry == [ok |-> FALSE, value |-> << >>, expiresAt |-> 0]

\* cacheEntry{value: v, expiresAt: e}
cacheEntry(v, e) == [ok |-> TRUE, value |-> v, expiresAt |-> e]

\* time.Now().Before(entry.expiresAt)
Before(t, u) == t < u

\* now.After(entry.expiresAt)
After(t, u) == t > u

\* time.Now().Add(c.cacheTTL)
Add(t, d) == t + d

hitAlways(entry, t) == entry.ok

hitAtExpiry(entry, t) == entry.ok /\ ~After(t, entry.expiresAt)

\* ok && time.Now().Before(entry.expiresAt)
hit(entry, t) == entry.ok /\ Before(t, entry.expiresAt)

\* clusterID + ":" + projectDisplayName
cacheKey(cid, name) == cid \o <<":">> \o name

\* len(cache)
len(cache) == Cardinality({k \in DOMAIN cache : cache[k].ok})

\* sync.RWMutex: the goroutine holding the write lock, the goroutines holding
\* the read lock
Unlocked == [w |-> "", r |-> {}]

RLock(mu, p) == [mu EXCEPT !.r = @ \cup {p}]

RUnlockForgotten(mu, p) == mu

RUnlock(mu, p) == [mu EXCEPT !.r = @ \ {p}]

Lock(mu, p) == [mu EXCEPT !.w = p]

Unlock(mu, p) == [mu EXCEPT !.w = ""]

canRLock(mu) == mu.w = ""

canLock(mu) == mu.w = "" /\ mu.r = {}

\* unstructured.NestedString: (value, found, err)
FieldString(s) == [kind |-> "string", str |-> s]

FieldMissing == [kind |-> "missing", str |-> << >>]

FieldWrongType == [kind |-> "wrongtype", str |-> << >>]

\* What Get and List return: an error, or the object, or the items
GetFailed(err) == [err |-> err, field |-> FieldMissing, items |-> << >>]

GetReturned(field) == [err |-> "", field |-> field, items |-> << >>]

ListReturned(items) == [err |-> "", field |-> FieldMissing, items |-> items]

Project(displayName, name) == [displayName |-> displayName, name |-> name]

lastMatch(items, name) ==
    LET m == {n \in 1..Len(items) : items[n].displayName = FieldString(name)} IN
    IF m = {} THEN 0 ELSE CHOOSE n \in m : \A k \in m : k <= n

\* The first item whose spec.displayName is a string equal to the name asked for
RECURSIVE firstMatch(_, _)
firstMatch(items, name) ==
    IF items = << >> THEN 0
    ELSE IF Head(items).displayName = FieldString(name) THEN 1
    ELSE LET rest == firstMatch(Tail(items), name) IN
         IF rest = 0 THEN 0 ELSE rest + 1

\* What a resolver call returns: (id, nil) or ("", err)
NoRet == [err |-> "", cause |-> "", id |-> << >>]

RetID(id) == [err |-> "", cause |-> "", id |-> id]

RetErr(err, cause) == [err |-> err, cause |-> cause, id |-> << >>]

\* A goroutine and the resolver call it runs: its arguments, its context, its
\* locals (attempt, backoff, entry, the fetched value), and what it has done so
\* far (the attempts with the error of each and what isRetryableError said of
\* it, the waits, the counters incremented, the time of its cache read, the
\* entry it wrote and when)
\* What the caller remembers of its previous call when it resolves the same
\* key again: the identifier, the expiry of the entry that call read or wrote,
\* whether ClearCache emptied that cache since
NoPrev == [set |-> FALSE, id |-> << >>, expiresAt |-> 0, cleared |-> FALSE, failed |-> FALSE]

NoCall ==
    [pc |-> "idle", op |-> "", cid |-> << >>, name |-> << >>, ctxDone |-> FALSE,
     attempt |-> 0, backoff |-> 0, entry |-> NoEntry, checkedAt |-> 0,
     items |-> << >>, value |-> << >>, log |-> << >>, waits |-> << >>, counted |-> << >>,
     written |-> NoEntry, writtenAt |-> 0, cleared |-> FALSE, overtaken |-> FALSE,
     prev |-> NoPrev, ret |-> NoRet]

served(c) ==
    [set |-> TRUE, id |-> c.ret.id,
     expiresAt |-> IF c.written.ok THEN c.written.expiresAt ELSE c.entry.expiresAt,
     cleared |-> c.cleared, failed |-> FALSE]

\* The previous call returned an error
failedBefore == [NoPrev EXCEPT !.failed = TRUE]

key(c) == IF c.op = "cluster" THEN c.name ELSE cacheKey(c.cid, c.name)

Attempt(err) == [err |-> err, retryable |-> isRetryableError(err)]

\* The call takes the read lock of its cache (RLock blocks while a writer holds it)
Begin(p, op, cid, name, prev) ==
    /\ rc' = [rc EXCEPT ![p] = [NoCall EXCEPT !.pc = "rlocked", !.op = op, !.cid = cid,
                                              !.name = name, !.prev = prev]]
    /\ IF op = "cluster"
       THEN /\ canRLock(clusterMu)
            /\ clusterMu' = RLock(clusterMu, p)
            /\ UNCHANGED projectMu
       ELSE /\ canRLock(projectMu)
            /\ projectMu' = RLock(projectMu, p)
            /\ UNCHANGED clusterMu

GetClusterID(p, name) ==
    /\ rc[p].pc = "idle"
    /\ Begin(p, "cluster", << >>, name, NoPrev)
    /\ UNCHANGED <<now, cacheTTL, clusterCache, projectCache, admin, stats, sweep,
                   preClear, handlerVars>>

GetProjectID(p, cid, name) ==
    /\ rc[p].pc = "idle"
    /\ Begin(p, "project", cid, name, NoPrev)
    /\ UNCHANGED <<now, cacheTTL, clusterCache, projectCache, admin, stats, sweep,
                   preClear, handlerVars>>

\* The caller of a call that returned an identifier resolves the same key again
Repeat(p) ==
    /\ rc[p].pc = "done"
    /\ rc[p].ret.err = ""
    /\ Begin(p, rc[p].op, rc[p].cid, rc[p].name, served(rc[p]))
    /\ UNCHANGED <<now, cacheTTL, clusterCache, projectCache, admin, stats, sweep,
                   preClear, handlerVars>>

\* The caller of a call that returned an error resolves the same key again
RepeatFailed(p) ==
    /\ rc[p].pc = "done"
    /\ rc[p].ret.err # ""
    /\ Begin(p, rc[p].op, rc[p].cid, rc[p].name, failedBefore)
    /\ UNCHANGED <<now, cacheTTL, clusterCache, projectCache, admin, stats, sweep,
                   preClear, handlerVars>>

CheckCacheExtendsTTL(p) ==
    /\ rc[p].pc = "rlocked"
    /\ LET c == rc[p]
           entry == IF c.op = "cluster" THEN clusterCache[key(c)]
                    ELSE projectCache[key(c)]
           touched == cacheEntry(entry.value, Add(now, cacheTTL)) IN
       /\ rc' = [rc EXCEPT ![p] =
                IF hit(entry, now)
                THEN [c EXCEPT !.pc = "done", !.entry = entry, !.checkedAt = now,
                               !.counted = Append(@, "cache_hit"),
                               !.ret = RetID(entry.value)]
                ELSE [c EXCEPT !.pc = "remote", !.entry = entry, !.checkedAt = now,
                               !.counted = Append(@, "cache_miss"),
                               !.attempt = 0, !.backoff = initialBackoff]]
       /\ IF c.op = "cluster"
          THEN /\ clusterCache' = IF hit(entry, now)
                                  THEN [clusterCache EXCEPT ![key(c)] = touched]
                                  ELSE clusterCache
               /\ UNCHANGED projectCache
          ELSE /\ projectCache' = IF hit(entry, now)
                                  THEN [projectCache EXCEPT ![key(c)] = touched]
                                  ELSE projectCache
               /\ UNCHANGED clusterCache
    /\ IF rc[p].op = "cluster"
       THEN /\ clusterMu' = RUnlock(clusterMu, p)
            /\ UNCHANGED projectMu
       ELSE /\ projectMu' = RUnlock(projectMu, p)
            /\ UNCHANGED clusterMu
    /\ UNCHANGED <<now, cacheTTL, admin, stats, sweep, preClear, handlerVars>>

\* The cache read under the read lock, and the unlock: a hit returns the entry's
\* value, a miss goes on to the retry loop with attempt 0 and the initial backoff
CheckCache(p) ==
    /\ rc[p].pc = "rlocked"
    /\ LET c == rc[p]
           entry == IF c.op = "cluster" THEN clusterCache[key(c)]
                    ELSE projectCache[key(c)] IN
       rc' = [rc EXCEPT ![p] =
                IF hit(entry, now)
                THEN [c EXCEPT !.pc = "done", !.entry = entry, !.checkedAt = now,
                               !.counted = Append(@, "cache_hit"),
                               !.ret = RetID(entry.value)]
                ELSE [c EXCEPT !.pc = "remote", !.entry = entry, !.checkedAt = now,
                               !.counted = Append(@, "cache_miss"),
                               !.attempt = 0, !.backoff = initialBackoff]]
    /\ IF rc[p].op = "cluster"
       THEN /\ clusterMu' = RUnlock(clusterMu, p)
            /\ UNCHANGED projectMu
       ELSE /\ projectMu' = RUnlock(projectMu, p)
            /\ UNCHANGED clusterMu
    /\ UNCHANGED <<now, cacheTTL, clusterCache, projectCache, admin, stats, sweep,
                   preClear, handlerVars>>

attemptFailedEarly(c, err) ==
    IF ~isRetryableError(err) \/ c.attempt = maxRetries - 1
    THEN [c EXCEPT !.pc = "done", !.log = Append(@, Attempt(err)),
                   !.counted = Append(@, "error_api"),
                   !.ret = RetErr("api", err)]
    ELSE [c EXCEPT !.pc = "backoff", !.log = Append(@, Attempt(err))]

\* An attempt that fails: the call returns the error when it is not retryable or
\* the attempts are used up, and otherwise goes to wait
attemptFailed(c, err) ==
    IF ~isRetryableError(err) \/ c.attempt = maxRetries
    THEN [c EXCEPT !.pc = "done", !.log = Append(@, Attempt(err)),
                   !.counted = Append(@, "error_api"),
                   !.ret = RetErr("api", err)]
    ELSE [c EXCEPT !.pc = "backoff", !.log = Append(@, Attempt(err))]

\* Get succeeded: status.clusterName is read off the object
clusterFetched(c, field) ==
    IF field.kind = "wrongtype"
    THEN [c EXCEPT !.pc = "done", !.log = Append(@, Attempt("")),
                   !.ret = RetErr("field", "")]
    ELSE IF field.kind = "missing"
    THEN [c EXCEPT !.pc = "done", !.log = Append(@, Attempt("")),
                   !.counted = Append(@, "error_not_found"),
                   !.ret = RetErr("not_found", "")]
    ELSE [c EXCEPT !.pc = "lock", !.log = Append(@, Attempt("")),
                   !.value = field.str]

\* List succeeded: the items are scanned for the display name
projectsFetched(c, items) ==
    LET n == firstMatch(items, c.name) IN
    IF n = 0
    THEN [c EXCEPT !.pc = "done", !.log = Append(@, Attempt("")),
                   !.items = items,
                   !.counted = Append(@, "error_not_found"),
                   !.ret = RetErr("not_found", "")]
    ELSE [c EXCEPT !.pc = "lock", !.log = Append(@, Attempt("")),
                   !.items = items, !.value = items[n].name]

\* One attempt of the retry loop: the remote call returns res
Remote(p, res) ==
    /\ rc[p].pc = "remote"
    /\ rc[p].op \in {"cluster", "project"}
    /\ rc' = [rc EXCEPT ![p] =
                IF res.err # "" THEN attemptFailed(rc[p], res.err)
                ELSE IF rc[p].op = "cluster" THEN clusterFetched(rc[p], res.field)
                ELSE projectsFetched(rc[p], res.items)]
    /\ UNCHANGED <<now, cacheTTL, clusterCache, clusterMu, projectCache, projectMu,
                   admin, stats, sweep, preClear, handlerVars>>

CancelledGoesOn(p) ==
    /\ rc[p].pc = "backoff"
    /\ rc[p].ctxDone
    /\ rc' = [rc EXCEPT ![p] = [@ EXCEPT !.pc = "remote",
                                         !.waits = Append(@, rc[p].backoff),
                                         !.backoff = min(rc[p].backoff * 2, maxBackoff),
                                         !.attempt = @ + 1]]
    /\ UNCHANGED <<now, cacheTTL, clusterCache, clusterMu, projectCache, projectMu,
                   admin, stats, sweep, preClear, handlerVars>>

CancelledCachesFailure(p) ==
    /\ rc[p].pc = "backoff"
    /\ rc[p].ctxDone
    /\ rc' = [rc EXCEPT ![p] = [@ EXCEPT !.pc = "done", !.ret = RetErr("context", "")]]
    /\ IF rc[p].op = "cluster"
       THEN /\ clusterCache' = [clusterCache EXCEPT
                                  ![key(rc[p])] = cacheEntry(<< >>, Add(now, cacheTTL))]
            /\ UNCHANGED projectCache
       ELSE /\ projectCache' = [projectCache EXCEPT
                                  ![key(rc[p])] = cacheEntry(<< >>, Add(now, cacheTTL))]
            /\ UNCHANGED clusterCache
    /\ UNCHANGED <<now, cacheTTL, clusterMu, projectMu,
                   admin, stats, sweep, preClear, handlerVars>>

\* select: the context is done, so the call returns ctx.Err()
Cancelled(p) ==
    /\ rc[p].pc = "backoff"
    /\ rc[p].ctxDone
    /\ rc' = [rc EXCEPT ![p] = [@ EXCEPT !.pc = "done", !.ret = RetErr("context", "")]]
    /\ UNCHANGED <<now, cacheTTL, clusterCache, clusterMu, projectCache, projectMu,
                   admin, stats, sweep, preClear, handlerVars>>

WaitedLinear(p) ==
    /\ rc[p].pc = "backoff"
    /\ ~rc[p].ctxDone
    /\ rc' = [rc EXCEPT ![p] = [@ EXCEPT !.pc = "remote",
                                         !.waits = Append(@, rc[p].backoff),
                                         !.backoff = min(rc[p].backoff + initialBackoff,
                                                         maxBackoff),
                                         !.attempt = @ + 1]]
    /\ UNCHANGED <<now, cacheTTL, clusterCache, clusterMu, projectCache, projectMu,
                   admin, stats, sweep, preClear, handlerVars>>

\* select: time.After(backoff) fires first; the backoff doubles up to the cap
\* and the loop goes to its next attempt
Waited(p) ==
    /\ rc[p].pc = "backoff"
    /\ ~rc[p].ctxDone
    /\ rc' = [rc EXCEPT ![p] = [@ EXCEPT !.pc = "remote",
                                         !.waits = Append(@, rc[p].backoff),
                                         !.backoff = min(rc[p].backoff * 2, maxBackoff),
                                         !.attempt = @ + 1]]
    /\ UNCHANGED <<now, cacheTTL, clusterCache, clusterMu, projectCache, projectMu,
                   admin, stats, sweep, preClear, handlerVars>>

\* HealthCheck is called: healthCheckResource begins with the clusters, takes
\* no lock and goes to its first attempt with the initial backoff
HealthCheck(p) ==
    /\ rc[p].pc = "idle"
    /\ rc' = [rc EXCEPT ![p] = [NoCall EXCEPT !.pc = "remote", !.op = "health",
                                              !.name = <<"clusters">>,
                                              !.backoff = initialBackoff]]
    /\ UNCHANGED <<now, cacheTTL, clusterCache, clusterMu, projectCache, projectMu,
                   admin, stats, sweep, preClear, handlerVars>>

\* An attempt of healthCheckResource fails: as in the resolver calls, but no
\* counter is incremented
healthFailed(c, err) ==
    IF ~isRetryableError(err) \/ c.attempt = maxRetries
    THEN [c EXCEPT !.pc = "done", !.log = Append(@, Attempt(err)),
                   !.ret = RetErr("api", err)]
    ELSE [c EXCEPT !.pc = "backoff", !.log = Append(@, Attempt(err))]

healthPassedOnClusters(c) ==
    [c EXCEPT !.pc = "done", !.items = Append(@, c.name[1]),
              !.log = Append(@, Attempt("")), !.ret = RetID(<< >>)]

\* An attempt of healthCheckResource succeeds: after the clusters the projects
\* are checked with a loop of their own, after the projects HealthCheck
\* returns nil.  items lists the resources whose check has succeeded.
healthPassed(c) ==
    IF c.name = <<"clusters">>
    THEN [c EXCEPT !.name = <<"projects">>, !.attempt = 0, !.backoff = initialBackoff,
                   !.items = Append(@, c.name[1]), !.log = << >>, !.waits = << >>]
    ELSE [c EXCEPT !.pc = "done", !.items = Append(@, c.name[1]),
                   !.log = Append(@, Attempt("")), !.ret = RetID(<< >>)]

\* One attempt of healthCheckResource: List with Limit 1 returns err
HealthRemote(p, err) ==
    /\ rc[p].pc = "remote"
    /\ rc[p].op = "health"
    /\ rc' = [rc EXCEPT ![p] = IF err # "" THEN healthFailed(rc[p], err)
                                ELSE healthPassed(rc[p])]
    /\ UNCHANGED <<now, cacheTTL, clusterCache, clusterMu, projectCache, projectMu,
                   admin, stats, sweep, preClear, handlerVars>>

\* The caller cancels the context of a running call, or its deadline passes
Cancel(p) ==
    /\ rc[p].pc \in {"rlocked", "remote", "backoff", "lock", "locked"}
    /\ ~rc[p].ctxDone
    /\ rc' = [rc EXCEPT ![p] = [@ EXCEPT !.ctxDone = TRUE]]
    /\ UNCHANGED <<now, cacheTTL, clusterCache, clusterMu, projectCache, projectMu,
                   admin, stats, sweep, preClear, handlerVars>>

\* The call takes the write lock of its cache
LockCache(p) ==
    /\ rc[p].pc = "lock"
    /\ rc' = [rc EXCEPT ![p] = [@ EXCEPT !.pc = "locked"]]
    /\ IF rc[p].op = "cluster"
       THEN /\ canLock(clusterMu)
            /\ clusterMu' = Lock(clusterMu, p)
            /\ UNCHANGED projectMu
       ELSE /\ canLock(projectMu)
            /\ projectMu' = Lock(projectMu, p)
            /\ UNCHANGED clusterMu
    /\ UNCHANGED <<now, cacheTTL, clusterCache, projectCache, admin, stats, sweep,
                   preClear, handlerVars>>

\* The entry is written under the write lock, the lock is released, the call
\* returns the value
WriteCache(p) ==
    /\ rc[p].pc = "locked"
    /\ LET c == rc[p]
           entry == cacheEntry(c.value, Add(now, cacheTTL)) IN
       /\ rc' = [rc EXCEPT ![p] = [c EXCEPT !.pc = "done", !.written = entry, !.writtenAt = now,
                                            !.ret = RetID(c.value)]]
       /\ IF c.op = "cluster"
          THEN /\ clusterCache' = [clusterCache EXCEPT ![key(c)] = entry]
               /\ clusterMu' = Unlock(clusterMu, p)
               /\ preClear' = [preClear EXCEPT !.cluster = @ \ {key(c)}]
               /\ UNCHANGED <<projectCache, projectMu>>
          ELSE /\ projectCache' = [projectCache EXCEPT ![key(c)] = entry]
               /\ projectMu' = Unlock(projectMu, p)
               /\ preClear' = [preClear EXCEPT !.project = @ \ {key(c)}]
               /\ UNCHANGED <<clusterCache, clusterMu>>
    /\ UNCHANGED <<now, cacheTTL, admin, stats, sweep, handlerVars>>

\* The caller takes the result; the goroutine is free for another call
Return(p) ==
    /\ rc[p].pc = "done"
    /\ rc' = [rc EXCEPT ![p] = NoCall]
    /\ UNCHANGED <<now, cacheTTL, clusterCache, clusterMu, projectCache, projectMu,
                   admin, stats, sweep, preClear, handlerVars>>

\* The clock advances
Tick ==
    /\ now < MaxTime
    /\ now' = now + 1
    /\ UNCHANGED <<cacheTTL, clusterCache, clusterMu, projectCache, projectMu, rc,
                   admin, stats, sweep, preClear, handlerVars>>

\* The keys of a set that still hold the entry they held
kept(keys, before, after) == {k \in keys : after[k].ok /\ after[k] = before[k]}

evictNone(cache, t) == cache

evictAll(cache, t) == [k \in DOMAIN cache |-> NoEntry]

evictAhead(cache, t) ==
    [k \in DOMAIN cache |->
        IF cache[k].ok /\ After(t + 2, cache[k].expiresAt) THEN NoEntry ELSE cache[k]]

\* for key, entry := range cache { if now.After(entry.expiresAt) { delete(cache, key) } }
evict(cache, t) ==
    [k \in DOMAIN cache |->
        IF cache[k].ok /\ After(t, cache[k].expiresAt) THEN NoEntry ELSE cache[k]]

NoSweep == [pc |-> "idle", now |-> 0]

\* startCacheEviction with a cacheTTL that is not positive: time.NewTicker
\* panics, in a goroutine that recovers nothing, and the process exits
startCacheEviction ==
    /\ sweep.pc = "idle"
    /\ cacheTTL <= 0
    /\ sweep' = [sweep EXCEPT !.pc = "panic"]
    /\ UNCHANGED <<now, cacheTTL, clusterCache, clusterMu, projectCache, projectMu, rc,
                   admin, stats, preClear, handlerVars>>

\* The ticker, which time.NewTicker returned for a positive cacheTTL, fires;
\* evictExpiredEntries reads the clock and takes the write lock of the cluster
\* cache
SweepBegin ==
    /\ sweep.pc = "idle"
    /\ cacheTTL > 0
    /\ canLock(clusterMu)
    /\ sweep' = [pc |-> "cluster", now |-> now]
    /\ clusterMu' = Lock(clusterMu, "sweep")
    /\ UNCHANGED <<now, cacheTTL, clusterCache, projectCache, projectMu, rc, admin,
                   stats, preClear, handlerVars>>

\* The expired cluster entries are deleted and the lock is released
SweepCluster ==
    /\ sweep.pc = "cluster"
    /\ clusterCache' = evict(clusterCache, sweep.now)
    /\ clusterMu' = Unlock(clusterMu, "sweep")
    /\ preClear' = [preClear EXCEPT !.cluster = kept(@, clusterCache, clusterCache')]
    /\ sweep' = [sweep EXCEPT !.pc = "between"]
    /\ UNCHANGED <<now, cacheTTL, projectCache, projectMu, rc, admin, stats,
                   handlerVars>>

\* The sweep takes the write lock of the project cache
SweepLockProject ==
    /\ sweep.pc = "between"
    /\ canLock(projectMu)
    /\ projectMu' = Lock(projectMu, "sweep")
    /\ sweep' = [sweep EXCEPT !.pc = "project"]
    /\ UNCHANGED <<now, cacheTTL, clusterCache, clusterMu, projectCache, rc, admin,
                   stats, preClear, handlerVars>>

\* The expired project entries are deleted and the lock is released
SweepProject ==
    /\ sweep.pc = "project"
    /\ projectCache' = evict(projectCache, sweep.now)
    /\ projectMu' = Unlock(projectMu, "sweep")
    /\ preClear' = [preClear EXCEPT !.project = kept(@, projectCache, projectCache')]
    /\ sweep' = NoSweep
    /\ UNCHANGED <<now, cacheTTL, clusterCache, clusterMu, rc, admin, stats,
                   handlerVars>>

makeKeepsEntries(cache) == cache

\* make(map[string]cacheEntry)
make(cache) == [k \in DOMAIN cache |-> NoEntry]

present(cache) == {k \in DOMAIN cache : cache[k].ok}

\* The finished calls on a cache learn that ClearCache has emptied it
clearedUnder(cs, op) ==
    [p \in DOMAIN cs |->
        IF cs[p].pc = "done" /\ cs[p].op = op
        THEN [cs[p] EXCEPT !.cleared = TRUE] ELSE cs[p]]

\* The calls that have fetched a value and not stored it yet learn that a
\* ClearCache has begun
overtakenBy(cs) ==
    [p \in DOMAIN cs |->
        IF cs[p].pc \in {"lock", "locked"}
        THEN [cs[p] EXCEPT !.overtaken = TRUE] ELSE cs[p]]

\* ClearCache is called and takes the write lock of the cluster cache
ClearBegin ==
    /\ admin = "idle"
    /\ canLock(clusterMu)
    /\ clusterMu' = Lock(clusterMu, "admin")
    /\ admin' = "cluster"
    /\ preClear' = [cluster |-> present(clusterCache), project |-> present(projectCache)]
    /\ rc' = overtakenBy(rc)
    /\ UNCHANGED <<now, cacheTTL, clusterCache, projectCache, projectMu, stats,
                   sweep, handlerVars>>

ClearClusterKeepsLock ==
    /\ admin = "cluster"
    /\ clusterCache' = make(clusterCache)
    /\ preClear' = [preClear EXCEPT !.cluster = kept(@, clusterCache, clusterCache')]
    /\ rc' = clearedUnder(rc, "cluster")
    /\ admin' = "between"
    /\ UNCHANGED <<now, cacheTTL, clusterMu, projectCache, projectMu, stats, sweep,
                   handlerVars>>

\* The cluster cache is replaced by an empty map and its lock is released
ClearCluster ==
    /\ admin = "cluster"
    /\ clusterCache' = make(clusterCache)
    /\ clusterMu' = Unlock(clusterMu, "admin")
    /\ preClear' = [preClear EXCEPT !.cluster = kept(@, clusterCache, clusterCache')]
    /\ rc' = clearedUnder(rc, "cluster")
    /\ admin' = "between"
    /\ UNCHANGED <<now, cacheTTL, projectCache, projectMu, stats, sweep, handlerVars>>

\* ClearCache takes the write lock of the project cache
ClearLockProject ==
    /\ admin = "between"
    /\ canLock(projectMu)
    /\ projectMu' = Lock(projectMu, "admin")
    /\ admin' = "project"
    /\ UNCHANGED <<now, cacheTTL, clusterCache, clusterMu, projectCache, rc, stats,
                   sweep, preClear, handlerVars>>

\* The project cache is replaced by an empty map, its lock is released and
\* ClearCache returns
ClearProject ==
    /\ admin = "project"
    /\ projectCache' = make(projectCache)
    /\ projectMu' = Unlock(projectMu, "admin")
    /\ preClear' = [preClear EXCEPT !.project = kept(@, projectCache, projectCache')]
    /\ rc' = clearedUnder(rc, "project")
    /\ admin' = "idle"
    /\ UNCHANGED <<now, cacheTTL, clusterCache, clusterMu, stats, sweep, handlerVars>>

\* CacheStats: its position, its two results, and whether its read of the
\* project cache fell between the two halves of a ClearCache with entries from
\* before that ClearCache still cached
NoStats == [pc |-> "idle", clusterEntries |-> 0, projectEntries |-> 0, torn |-> FALSE]

\* CacheStats is called and takes the read lock of the cluster cache
StatsBegin ==
    /\ stats.pc = "idle"
    /\ canRLock(clusterMu)
    /\ clusterMu' = RLock(clusterMu, "stats")
    /\ stats' = [NoStats EXCEPT !.pc = "cluster"]
    /\ UNCHANGED <<now, cacheTTL, clusterCache, projectCache, projectMu, rc, admin,
                   sweep, preClear, handlerVars>>

\* clusterEntries = len(c.clusterCache), and the lock is released
StatsCluster ==
    /\ stats.pc = "cluster"
    /\ stats' = [stats EXCEPT !.pc = "between", !.clusterEntries = len(clusterCache)]
    /\ clusterMu' = RUnlock(clusterMu, "stats")
    /\ UNCHANGED <<now, cacheTTL, clusterCache, projectCache, projectMu, rc, admin,
                   sweep, preClear, handlerVars>>

\* CacheStats takes the read lock of the project cache
StatsLockProject ==
    /\ stats.pc = "between"
    /\ canRLock(projectMu)
    /\ projectMu' = RLock(projectMu, "stats")
    /\ stats' = [stats EXCEPT !.pc = "project"]
    /\ UNCHANGED <<now, cacheTTL, clusterCache, clusterMu, projectCache, rc, admin,
                   sweep, preClear, handlerVars>>

\* projectEntries = len(c.projectCache), the lock is released, CacheStats returns
StatsProject ==
    /\ stats.pc = "project"
    /\ stats' = [stats EXCEPT !.pc = "done", !.projectEntries = len(projectCache),
                              !.torn = (admin = "between" /\ preClear.project # {})]
    /\ projectMu' = RUnlock(projectMu, "stats")
    /\ UNCHANGED <<now, cacheTTL, clusterCache, clusterMu, projectCache, rc, admin,
                   sweep, preClear, handlerVars>>

\* The caller takes the statistics
StatsReturn ==
    /\ stats.pc = "done"
    /\ stats' = NoStats
    /\ UNCHANGED <<now, cacheTTL, clusterCache, clusterMu, projectCache, projectMu,
                   rc, admin, sweep, preClear, handlerVars>>

-----------------------------------------------------------------------------
(* The inputs of the resolver *)

\* NewClient(dynamicClient, logger, cacheTTL)
TTLs == 0..MaxTTL

Goroutines == {"r1", "r2"}

CacheGoroutines == {"r1"}

\* The names the resolver is asked for
ClusterKeys == {<<"prod">>}

ProjectNamespaces == {<<"c-m-abc123">>}

DisplayNames == {<<"platform">>}

ProjectKeys == {cacheKey(cid, name) : cid \in ProjectNamespaces, name \in DisplayNames}

\* The errors of the backend
RetryableErrors ==
    {"Timeout", "ServerTimeout", "TooManyRequests", "ServiceUnavailable", "InternalError"}

TerminalErrors ==
    {"NotFound", "BadRequest", "Forbidden", "Unauthorized", "context canceled"}

BackendErrors == RetryableErrors \cup TerminalErrors

\* What the backend holds
BackendClusterIDs == {<<"c-m-abc123">>, <<"c-m-def456">>}

BackendProjects ==
    { Project(FieldString(<<"platform">>), <<"p-abc123">>),
      Project(FieldString(<<"platform">>), <<"p-xyz789">>),
      Project(FieldString(<<"other">>), <<"p-other">>),
      Project(FieldMissing, <<"p-none">>),
      Project(FieldWrongType, <<"p-odd">>) }

ClusterObjects ==
    {GetReturned(FieldString(id)) : id \in BackendClusterIDs} \cup
    {GetReturned(FieldMissing), GetReturned(FieldWrongType)}

\* The lists of no project, or of one with a display name
ProjectLists ==
    {ListReturned(<< >>)} \cup
    {ListReturned(<<a>>) : a \in {b \in BackendProjects : b.displayName.kind = "string"}}

\* The lists of up to MaxItems projects, in every order
ScanLists ==
    {ListReturned(items) : items \in UNION {[1..n -> BackendProjects] : n \in 0..MaxItems}}

Failures(errs) == {GetFailed(err) : err \in errs}

\* The results a remote call of goroutine p may return, with errs the errors
\* the backend gives
Results(p, errs) ==
    Failures(errs) \cup (IF rc[p].op = "cluster" THEN ClusterObjects ELSE ProjectLists)

\* NewClient: both caches empty, no lock held, no call running
InitClient(ttls) ==
    /\ now = 0
    /\ cacheTTL \in ttls
    /\ clusterCache = [k \in ClusterKeys |-> NoEntry]
    /\ projectCache = [k \in ProjectKeys |-> NoEntry]
    /\ clusterMu = Unlocked
    /\ projectMu = Unlocked
    /\ rc = [p \in Goroutines |-> NoCall]
    /\ admin = "idle"
    /\ stats = NoStats
    /\ sweep = NoSweep
    /\ preClear = [cluster |-> {}, project |-> {}]

-----------------------------------------------------------------------------
(* The requests in flight *)

Slots == {"a", "b"}

NoStamp == [set |-> FALSE, c |-> "", p |-> ""]

Stamp(c, p) == [set |-> TRUE, c |-> c, p |-> p]

NoRequest ==
    [clusterName |-> "", request |-> Request("", "", RawNil, RawNil), stamp |-> NoStamp]

\* A RancherClient call: pending until it returns `ret`
Pending == [err |-> "pending", id |-> ""]

Call(fn, args) == [fn |-> fn, args |-> args, ret |-> Pending]

\* The log with its last call returned
Returned(log, res) == [log EXCEPT ![Len(log)].ret = res]

TypeOK ==
    /\ strictMode \in BOOLEAN
    /\ dryRun \in BOOLEAN
    /\ projectLabel \in ProjectLabels
    /\ projectAnnotation \in AnnotationKeys
    /\ pc \in [Slots -> {"idle", "GetClusterID", "GetProjectID", "done"}]
    /\ DOMAIN req = Slots
    /\ clusterID \in [Slots -> ClusterIDs \cup {""}]
    /\ DOMAIN resp = Slots
    /\ DOMAIN calls = Slots

\* NewHandler(rancherClient, logger, cfg); no request has arrived
InitHandler ==
    /\ strictMode \in BOOLEAN
    /\ dryRun \in BOOLEAN
    /\ projectLabel \in ProjectLabels
    /\ projectAnnotation \in AnnotationKeys
    /\ pc = [i \in Slots |-> "idle"]
    /\ req = [i \in Slots |-> NoRequest]
    /\ clusterID = [i \in Slots |-> ""]
    /\ resp = [i \in Slots |-> NoDecision]
    /\ calls = [i \in Slots |-> << >>]

config == <<strictMode, dryRun, projectLabel, projectAnnotation>>

\* HandleMutate calls mutate, which runs up to its first return or to GetClusterID
Admit(i, name, r) ==
    /\ pc[i] = "idle"
    /\ req' = [req EXCEPT ![i] = [clusterName |-> name, request |-> r, stamp |-> stamp]]
    /\ clusterID' = [clusterID EXCEPT ![i] = ""]
    /\ IF beforeLookup(r) # NoDecision
       THEN /\ resp' = [resp EXCEPT ![i] = beforeLookup(r)]
            /\ calls' = [calls EXCEPT ![i] = << >>]
            /\ pc' = [pc EXCEPT ![i] = "done"]
       ELSE /\ resp' = [resp EXCEPT ![i] = NoDecision]
            /\ calls' = [calls EXCEPT ![i] = << Call("GetClusterID", <<name>>) >>]
            /\ pc' = [pc EXCEPT ![i] = "GetClusterID"]
    /\ UNCHANGED <<config, store, stamp, clientVars>>

ClusterReturnsAnyway(i, res) ==
    /\ pc[i] = "GetClusterID"
    /\ clusterID' = [clusterID EXCEPT ![i] = res.id]
    /\ calls' = [calls EXCEPT ![i] = Append(Returned(@, res),
           Call("GetProjectID", <<res.id, projectNameOf(req[i].request.Object.ns)>>))]
    /\ pc' = [pc EXCEPT ![i] = "GetProjectID"]
    /\ UNCHANGED <<config, req, resp, store, stamp, clientVars>>

\* GetClusterID returns: mutate decides on an error, or calls GetProjectID
ClusterReturns(i, res) ==
    /\ pc[i] = "GetClusterID"
    /\ IF res.err # ""
       THEN /\ resp' = [resp EXCEPT ![i] = clusterFailure(res.err)]
            /\ pc' = [pc EXCEPT ![i] = "done"]
            /\ calls' = [calls EXCEPT ![i] = Returned(@, res)]
            /\ UNCHANGED clusterID
       ELSE /\ clusterID' = [clusterID EXCEPT ![i] = res.id]
            /\ calls' = [calls EXCEPT ![i] = Append(Returned(@, res),
                   Call("GetProjectID", <<res.id, projectNameOf(req[i].request.Object.ns)>>))]
            /\ pc' = [pc EXCEPT ![i] = "GetProjectID"]
            /\ UNCHANGED resp
    /\ UNCHANGED <<config, req, store, stamp, clientVars>>

\* GetProjectID returns: mutate runs to its end
ProjectReturns(i, res) ==
    /\ pc[i] = "GetProjectID"
    /\ resp' = [resp EXCEPT ![i] =
                  IF res.err # ""
                  THEN projectFailure(projectNameOf(req[i].request.Object.ns), res.err)
                  ELSE afterLookup(req[i].request.Object.ns, clusterID[i], res.id)]
    /\ calls' = [calls EXCEPT ![i] = Returned(@, res)]
    /\ pc' = [pc EXCEPT ![i] = "done"]
    /\ UNCHANGED <<config, req, clusterID, store, stamp, clientVars>>

\* HandleMutate from its first line: the cluster name is cut out of the path;
\* without a name, or with a body that cannot be read as an AdmissionReview,
\* it answers 400 and returns; with a review whose Request is nil it panics
\* reading admissionReview.Request.UID; otherwise it calls mutate, which runs
\* up to its first return or to GetClusterID
HandleMutate(i, path, body) ==
    LET clusterName == clusterNameOf(path)
        r == body.request
    IN
    /\ pc[i] = "idle"
    /\ req' = [req EXCEPT ![i] = [clusterName |-> clusterName, request |-> r,
                                   stamp |-> stamp, path |-> path, valid |-> body.valid]]
    /\ clusterID' = [clusterID EXCEPT ![i] = ""]
    /\ IF clusterName = << >> \/ clusterName = <<"mutate">> \/ ~body.valid
       THEN /\ resp' = [resp EXCEPT ![i] = NoDecision]
            /\ calls' = [calls EXCEPT ![i] = << >>]
            /\ pc' = [pc EXCEPT ![i] = "BadRequest"]
       ELSE IF ~body.hasRequest
       THEN /\ resp' = [resp EXCEPT ![i] = NoDecision]
            /\ calls' = [calls EXCEPT ![i] = << >>]
            /\ pc' = [pc EXCEPT ![i] = "panic"]
       ELSE IF beforeLookup(r) # NoDecision
       THEN /\ resp' = [resp EXCEPT ![i] = beforeLookup(r)]
            /\ calls' = [calls EXCEPT ![i] = << >>]
            /\ pc' = [pc EXCEPT ![i] = "done"]
       ELSE /\ resp' = [resp EXCEPT ![i] = NoDecision]
            /\ calls' = [calls EXCEPT ![i] = << Call("GetClusterID", <<clusterName>>) >>]
            /\ pc' = [pc EXCEPT ![i] = "GetClusterID"]
    /\ UNCHANGED <<config, store, stamp, clientVars>>

\* http.Error(w, ..., http.StatusBadRequest) was written; the request is over
Rejected(i) ==
    /\ pc[i] = "BadRequest"
    /\ pc' = [pc EXCEPT ![i] = "idle"]
    /\ req' = [req EXCEPT ![i] = NoRequest]
    /\ UNCHANGED <<config, clusterID, resp, calls, store, stamp, clientVars>>

\* The panic unwinds HandleMutate; net/http recovers it and closes the
\* connection without an answer
Recovered(i) ==
    /\ pc[i] = "panic"
    /\ pc' = [pc EXCEPT ![i] = "idle"]
    /\ req' = [req EXCEPT ![i] = NoRequest]
    /\ UNCHANGED <<config, clusterID, resp, calls, store, stamp, clientVars>>

\* HandleMutate writes the review back; the request is over
Respond(i) ==
    /\ pc[i] = "done"
    /\ pc' = [pc EXCEPT ![i] = "idle"]
    /\ req' = [req EXCEPT ![i] = NoRequest]
    /\ clusterID' = [clusterID EXCEPT ![i] = ""]
    /\ resp' = [resp EXCEPT ![i] = NoDecision]
    /\ calls' = [calls EXCEPT ![i] = << >>]
    /\ UNCHANGED <<config, store, stamp, clientVars>>

Init ==
    /\ InitHandler
    /\ InitClient({1})
    /\ store = EmptyNamespace
    /\ stamp = NoStamp

Next ==
    \/ \E name \in ClusterNames, r \in Requests : Admit("a", name, r)
    \/ \E res \in ClusterResults : ClusterReturns("a", res)
    \/ \E res \in ProjectResults : ProjectReturns("a", res)
    \/ Respond("a")

Spec == Init /\ [][Next]_vars

-----------------------------------------------------------------------------
(* Two admissions of one namespace in flight at once, with the API server     *)
(* persisting what each admission allows.                                     *)

StoredNamespaces ==
    { Namespace(MakeMap({<<l, "platform">>}), a) :
        l \in ProjectLabels,
        a \in {NilMap, MakeMap({}), MakeMap({<<k, <<"stale">>>> : k \in AnnotationKeys})} }

StoredOldObjects ==
    {RawNil, RawInvalid} \cup
    { RawJSON(Namespace(MakeMap({<<l, v>>}), NilMap)) :
        l \in ProjectLabels, v \in {"platform", "other"} }

StoredRequests ==
    { Request("Namespace", "CREATE", RawJSON(store), RawNil) } \cup
    { Request("Namespace", "UPDATE", RawJSON(store), old) : old \in StoredOldObjects }

\* One namespace lives in one cluster: its routed name resolves to one identifier
StoredClusterResults == {Found(ClusterIDList[1]), Failed("not_found")}

StoredProjectResults == {Found(p) : p \in ProjectIDs} \cup {Failed("not_found")}

\* The API server applies the patch of an allowed response to the object of the
\* request and persists the result; the request is over.
Persist(i) ==
    /\ pc[i] = "done"
    /\ LET after == applyPatch(req[i].request.Object.ns, resp[i].Patch) IN
       IF resp[i].Allowed /\ resp[i].Patch # NoPatch /\ after.ok
       THEN /\ store' = after.ns
            /\ stamp' = Stamp(calls[i][1].ret.id, calls[i][2].ret.id)
       ELSE UNCHANGED <<store, stamp>>
    /\ pc' = [pc EXCEPT ![i] = "idle"]
    /\ req' = [req EXCEPT ![i] = NoRequest]
    /\ clusterID' = [clusterID EXCEPT ![i] = ""]
    /\ resp' = [resp EXCEPT ![i] = NoDecision]
    /\ calls' = [calls EXCEPT ![i] = << >>]
    /\ UNCHANGED <<config, clientVars>>

InitStored ==
    /\ InitHandler
    /\ InitClient({1})
    /\ store \in StoredNamespaces
    /\ stamp = NoStamp

NextStored ==
    \E i \in Slots :
        \/ \E name \in ClusterNames, r \in StoredRequests : Admit(i, name, r)
        \/ \E res \in StoredClusterResults : ClusterReturns(i, res)
        \/ \E res \in StoredProjectResults : ProjectReturns(i, res)
        \/ Persist(i)

SpecStored == InitStored /\ [][NextStored]_vars

-----------------------------------------------------------------------------
(* The resolver on its own: no admission is in flight *)

HandlerIdle ==
    /\ strictMode = FALSE
    /\ dryRun = FALSE
    /\ projectLabel = "project"
    /\ projectAnnotation = KeyRancher
    /\ pc = [i \in Slots |-> "idle"]
    /\ req = [i \in Slots |-> NoRequest]
    /\ clusterID = [i \in Slots |-> ""]
    /\ resp = [i \in Slots |-> NoDecision]
    /\ calls = [i \in Slots |-> << >>]
    /\ store = EmptyNamespace
    /\ stamp = NoStamp

\* The handler configured with any annotation key of up to MaxKeyLen characters
\* out of "~", "/", the digits that follow "~" in an escape, and a letter
MaxKeyLen == 4

PointerAtoms == {"~", "/", "0", "1", "a"}

PointerStrings == UNION {[1..n -> PointerAtoms] : n \in 0..MaxKeyLen}

\* CREATE of a namespace with the project label, without annotations or with an
\* empty annotations object
EscapeRequests ==
    { Request("Namespace", "CREATE",
              RawJSON(Namespace(MakeMap({<<"project", "platform">>}), a)), RawNil) :
        a \in {NilMap, MakeMap({})} }

InitEscape ==
    /\ strictMode = FALSE
    /\ dryRun = FALSE
    /\ projectLabel = "project"
    /\ projectAnnotation \in PointerStrings
    /\ pc = [i \in Slots |-> "idle"]
    /\ req = [i \in Slots |-> NoRequest]
    /\ clusterID = [i \in Slots |-> ""]
    /\ resp = [i \in Slots |-> NoDecision]
    /\ calls = [i \in Slots |-> << >>]
    /\ store = EmptyNamespace
    /\ stamp = NoStamp
    /\ InitClient({1})

NextEscape ==
    \/ \E r \in EscapeRequests : Admit("a", "prod", r)
    \/ ClusterReturns("a", Found(ClusterIDList[1]))
    \/ ProjectReturns("a", Found(ProjectIDList[1]))
    \/ Respond("a")

SpecEscape == InitEscape /\ [][NextEscape]_vars

\* Requests to /mutate/ followed by up to MaxPathLen path elements
MaxPathLen == 3

PathAtoms == {"/", "mutate", "prod"}

Paths ==
    {<<"/", "mutate", "/">> \o rest :
        rest \in UNION {[1..n -> PathAtoms] : n \in 0..MaxPathLen}}

\* A body that is no JSON, a review without a request, and the reviews of a
\* namespace with the project label and of a pod
Bodies ==
    {[valid |-> FALSE, hasRequest |-> FALSE, request |-> Request("", "", RawNil, RawNil)],
     [valid |-> TRUE, hasRequest |-> FALSE, request |-> Request("", "", RawNil, RawNil)]} \cup
    {[valid |-> TRUE, hasRequest |-> TRUE, request |-> r] :
        r \in {Request("Namespace", "CREATE",
                       RawJSON(Namespace(MakeMap({<<"project", "platform">>}), NilMap)),
                       RawNil),
               Request("Pod", "CREATE", RawJSON(Namespace(NilMap, NilMap)), RawNil)}}

NextPath ==
    \/ \E path \in Paths, body \in Bodies : HandleMutate("a", path, body)
    \/ Rejected("a")
    \/ Recovered("a")
    \/ \E res \in ClusterResults : ClusterReturns("a", res)
    \/ \E res \in ProjectResults : ProjectReturns("a", res)
    \/ Respond("a")

SpecPath == Init /\ [][NextPath]_vars

\* The steps of one goroutine's resolver call that every specification shares
Resolve(p, errs) ==
    \/ \E name \in ClusterKeys : GetClusterID(p, name)
    \/ \E cid \in ProjectNamespaces, name \in DisplayNames : GetProjectID(p, cid, name)
    \/ CheckCache(p)
    \/ \E res \in Results(p, errs) : Remote(p, res)
    \/ LockCache(p)
    \/ WriteCache(p)
    \/ Return(p)

\* One call at a time against a backend that gives every error, under a context
\* that may be cancelled
InitRetry == HandlerIdle /\ InitClient({0, 1})

NextRetry ==
    \/ Resolve("r1", BackendErrors)
    \/ Waited("r1")
    \/ Cancel("r1")
    \/ Cancelled("r1")

SpecRetry == InitRetry /\ [][NextRetry]_vars

\* The steps of a running call.  The goroutine is scheduled, the remote call it
\* waits for returns (a response, an error, or the end of its context), and
\* the timer of time.After fires.
Step(p) ==
    \/ CheckCache(p)
    \/ \E res \in Results(p, BackendErrors) : Remote(p, res)
    \/ Waited(p)
    \/ Cancelled(p)
    \/ LockCache(p)
    \/ WriteCache(p)

SpecRetryFair == SpecRetry /\ WF_vars(Step("r1"))

\* GetProjectID against every list the backend may return
InitScan == HandlerIdle /\ InitClient(TTLs)

NextScan ==
    \/ \E cid \in ProjectNamespaces, name \in DisplayNames : GetProjectID("r1", cid, name)
    \/ CheckCache("r1")
    \/ \E res \in Failures({"NotFound"}) \cup ScanLists : Remote("r1", res)
    \/ LockCache("r1")
    \/ WriteCache("r1")
    \/ Return("r1")

SpecScan == InitScan /\ [][NextScan]_vars

\* GetProjectID for cluster identifiers and display names that may hold ":",
\* against a backend where every namespace has its own project of each name
PairNamespaces == {<<"c1">>, <<"c1", ":", "a">>}

PairNameList == << <<"a", ":", "b">>, <<"b">> >>

PairNames == {PairNameList[n] : n \in 1..Len(PairNameList)}

PairKeys == {cacheKey(cid, name) : cid \in PairNamespaces, name \in PairNames}

\* metadata.name of the project with that display name in that namespace
BackendID(cid, name) == <<"p">> \o cid \o <<"-">> \o name

\* What List returns for the namespace of a cluster identifier
ListOf(cid) ==
    ListReturned([n \in 1..Len(PairNameList) |->
                    Project(FieldString(PairNameList[n]), BackendID(cid, PairNameList[n]))])

InitPairs ==
    /\ HandlerIdle
    /\ now = 0
    /\ cacheTTL \in TTLs
    /\ clusterCache = [k \in ClusterKeys |-> NoEntry]
    /\ projectCache = [k \in PairKeys |-> NoEntry]
    /\ clusterMu = Unlocked
    /\ projectMu = Unlocked
    /\ rc = [p \in Goroutines |-> NoCall]
    /\ admin = "idle"
    /\ stats = NoStats
    /\ sweep = NoSweep
    /\ preClear = [cluster |-> {}, project |-> {}]

NextPairs ==
    \E p \in Goroutines :
        \/ \E cid \in PairNamespaces, name \in PairNames : GetProjectID(p, cid, name)
        \/ CheckCache(p)
        \/ Remote(p, ListOf(rc[p].cid))
        \/ LockCache(p)
        \/ WriteCache(p)
        \/ Return(p)

SpecPairs == InitPairs /\ [][NextPairs]_vars

\* Two goroutines that resolve at once, against a backend whose answer may
\* change from one call to the next
InitRace == HandlerIdle /\ InitClient(TTLs)

NextRace == \E p \in Goroutines : Resolve(p, {"NotFound"})

SpecRace == InitRace /\ [][NextRace]_vars

\* One caller that resolves a key again after a success and after a failure
InitFail == HandlerIdle /\ InitClient({0, 1})

NextFail ==
    \/ Resolve("r1", {"NotFound", "Timeout"})
    \/ Repeat("r1")
    \/ RepeatFailed("r1")
    \/ Waited("r1")
    \/ Cancel("r1")
    \/ Cancelled("r1")

SpecFail == InitFail /\ [][NextFail]_vars

\* The readiness probe calls HealthCheck while a request resolves identifiers
InitHealth == HandlerIdle /\ InitClient({1})

NextHealth ==
    \/ HealthCheck("r1")
    \/ \E err \in {"", "Timeout", "Forbidden"} : HealthRemote("r1", err)
    \/ Waited("r1")
    \/ Cancel("r1")
    \/ Cancelled("r1")
    \/ Return("r1")
    \/ Resolve("r2", {"NotFound"})

SpecHealth == InitHealth /\ [][NextHealth]_vars

\* Resolver calls and HealthCheck with retries, two goroutines at once
InitLocks == HandlerIdle /\ InitClient({1})

NextLocks ==
    \E p \in Goroutines :
        \/ Resolve(p, {"Timeout"})
        \/ HealthCheck(p)
        \/ \E err \in {"", "Timeout"} : HealthRemote(p, err)
        \/ Waited(p)
        \/ Cancel(p)
        \/ Cancelled(p)

SpecLocks == InitLocks /\ [][NextLocks]_vars

\* The caches over time: calls that resolve a key and resolve it again, the
\* clock, the sweep and ClearCache
InitCache == HandlerIdle /\ InitClient(TTLs)

Sweep == SweepBegin \/ SweepCluster \/ SweepLockProject \/ SweepProject

ClearCache == ClearBegin \/ ClearCluster \/ ClearLockProject \/ ClearProject

CacheStats == StatsBegin \/ StatsCluster \/ StatsLockProject \/ StatsProject \/ StatsReturn

NextCache ==
    \/ \E p \in CacheGoroutines : Resolve(p, {"NotFound"}) \/ Repeat(p)
    \/ Tick
    \/ Sweep
    \/ ClearCache

SpecCache == InitCache /\ [][NextCache]_vars

\* NewClient with any cacheTTL, the goroutine of startCacheEviction and the
\* calls of one caller, for as long as the process runs
InitStart == HandlerIdle /\ InitClient(TTLs)

NextStart ==
    /\ sweep.pc # "panic"
    /\ \/ startCacheEviction
       \/ Resolve("r1", {"NotFound"})
       \/ Repeat("r1")
       \/ Tick
       \/ Sweep

SpecStart == InitStart /\ [][NextStart]_vars

\* The same with entries that outlive one tick and two ticks of the clock
InitReads == HandlerIdle /\ InitClient({1, 2})

SpecReads == InitReads /\ [][NextCache]_vars

\* ClearCache against calls that fill the caches, CacheStats that reads them
\* and the sweep
InitClear == HandlerIdle /\ InitClient({1})

NextClear ==
    \/ Resolve("r1", {"NotFound"})
    \/ ClearCache
    \/ CacheStats
    \/ Sweep

SpecClear == InitClear /\ [][NextClear]_vars

-----------------------------------------------------------------------------
(* Properties of the decisions, read off the state of a finished request *)

Done(i) == pc[i] = "done"

NewNS(i) == req[i].request.Object.ns

\* The request is for a Namespace and its new object parses
ParsedNamespace(i) ==
    /\ req[i].request.Kind = "Namespace"
    /\ req[i].request.Object.state = "json"

\* The new object carries the configured project label
LabelPresent(i) == \E e \in NewNS(i).labels.kv : e[1] = projectLabel

LabelValue(i) == (CHOOSE e \in NewNS(i).labels.kv : e[1] = projectLabel)[2]

\* The value of the target annotation on the new object ("" when there is none)
TargetAnnotation(i) ==
    IF \E e \in NewNS(i).annotations.kv : e[1] = projectAnnotation
    THEN (CHOOSE e \in NewNS(i).annotations.kv : e[1] = projectAnnotation)[2]
    ELSE << >>

\* The old object proves the UPDATE unchanged
ShortCircuited(i) ==
    /\ req[i].request.Operation = "UPDATE"
    /\ req[i].request.OldObject.state = "json"
    /\ LET old == req[i].request.OldObject.ns.labels.kv IN
       IF \E e \in old : e[1] = projectLabel
       THEN \E e \in old : e[1] = projectLabel /\ e[2] = LabelValue(i)
       ELSE LabelValue(i) = ""
    /\ TargetAnnotation(i) # << >>

ClusterFailed(i) == Len(calls[i]) = 1 /\ calls[i][1].ret.err \in LookupErrors

ClusterFound(i) == Len(calls[i]) >= 1 /\ calls[i][1].ret.err = ""

ProjectFailed(i) ==
    ClusterFound(i) /\ Len(calls[i]) = 2 /\ calls[i][2].ret.err \in LookupErrors

BothFound(i) == ClusterFound(i) /\ Len(calls[i]) = 2 /\ calls[i][2].ret.err = ""

\* clusterID + ":" + projectID of the identifiers the two lookups returned
Desired(i) == <<calls[i][1].ret.id, ":", calls[i][2].ret.id>>

IsDenied(i) ==
    /\ resp[i].Allowed = FALSE
    /\ resp[i].status = "denied"
    /\ resp[i].Patch = << >>

IsAllowedNoPatch(i, status) ==
    /\ resp[i].Allowed = TRUE
    /\ resp[i].Patch = << >>
    /\ resp[i].PatchType = "none"
    /\ resp[i].status = status

\* The escaped form of each configured annotation key (handler_test.go, TestEscapeJSONPointer)
EscapedKey ==
    IF projectAnnotation = <<"field.cattle.io", "/", "projectId">>
    THEN <<"field.cattle.io", "~", "1", "projectId">>
    ELSE <<"~", "0", "and", "~", "1", "mixed">>

KeyPath == <<"/", "metadata", "/", "annotations", "/">> \o EscapedKey

\* C1: a Namespace request with the project label, not short-circuited as an
\* unchanged UPDATE, reaches GetClusterID; when that call fails the request is
\* denied (status "denied") in strict mode and allowed without a patch (status
\* "allowed") otherwise, whatever the rest of the request is.
C1_ClusterFailureFollowsStrictMode ==
    \A i \in Slots :
        (Done(i) /\ ParsedNamespace(i) /\ LabelPresent(i) /\ ~ShortCircuited(i)) =>
            /\ Len(calls[i]) >= 1
            /\ calls[i][1].fn = "GetClusterID"
            /\ ClusterFailed(i) =>
                  IF strictMode THEN IsDenied(i) ELSE IsAllowedNoPatch(i, "allowed")

C1_Witness ==
    \E i \in Slots :
        /\ Done(i) /\ ParsedNamespace(i) /\ LabelPresent(i) /\ ClusterFailed(i)
        /\ calls[i][1].ret.err = "not_found"
        /\ strictMode /\ IsDenied(i)

\* C2: when GetClusterID succeeds and GetProjectID fails, the request is denied
\* (status "denied") in strict mode and allowed without a patch (status
\* "allowed") otherwise.
C2_ProjectFailureFollowsStrictMode ==
    \A i \in Slots :
        (Done(i) /\ ProjectFailed(i)) =>
            IF strictMode THEN IsDenied(i) ELSE IsAllowedNoPatch(i, "allowed")

C2_Witness ==
    \E i \in Slots :
        /\ Done(i) /\ ProjectFailed(i) /\ ~strictMode
        /\ IsAllowedNoPatch(i, "allowed")

\* C3: with strict mode off, every finished request whose new object parses is
\* allowed, whatever its operation, labels, annotations and lookup results.
C3_PermissiveAlwaysAllows ==
    \A i \in Slots :
        (Done(i) /\ ~strictMode /\ req[i].request.Object.state = "json") =>
            resp[i].Allowed = TRUE

C3_Witness ==
    \E i \in Slots :
        /\ Done(i) /\ ~strictMode /\ ParsedNamespace(i)
        /\ ProjectFailed(i) /\ calls[i][2].ret.err = "context_canceled"
        /\ resp[i].Allowed = TRUE

\* C4: a CREATE of a labelled Namespace with dry-run off, both lookups
\* succeeding with c and p, and the annotation different from "c:p" is allowed
\* with status "mutated", patch type JSON Patch, and a patch whose last
\* operation adds "c:p" at /metadata/annotations/<escaped key>.
C4_CreateIsMutated ==
    \A i \in Slots :
        (/\ Done(i) /\ ParsedNamespace(i) /\ LabelPresent(i)
         /\ req[i].request.Operation = "CREATE" /\ ~dryRun
         /\ BothFound(i) /\ TargetAnnotation(i) # Desired(i)) =>
            /\ resp[i].Allowed = TRUE
            /\ resp[i].status = "mutated"
            /\ resp[i].PatchType = "JSONPatch"
            /\ Len(resp[i].Patch) >= 1
            /\ resp[i].Patch[Len(resp[i].Patch)] =
                  [op |-> "add", path |-> KeyPath,
                   value |-> [isObject |-> FALSE, str |-> Desired(i)]]

C4_Witness ==
    \E i \in Slots :
        /\ Done(i) /\ req[i].request.Operation = "CREATE" /\ BothFound(i)
        /\ NewNS(i).annotations.isNil
        /\ Desired(i) = <<"c-m-abc123", ":", "p-xyz789">>
        /\ projectAnnotation = <<"field.cattle.io", "/", "projectId">>
        /\ resp[i].status = "mutated"

\* C5: when both lookups succeed and the target annotation already equals
\* clusterID ":" projectID, the request is allowed without a patch with status
\* "skipped", for CREATE and UPDATE, whatever the dry-run and strict flags.
C5_CorrectAnnotationIsSkipped ==
    \A i \in Slots :
        (Done(i) /\ BothFound(i) /\ TargetAnnotation(i) = Desired(i)) =>
            IsAllowedNoPatch(i, "skipped")

C5_Witness ==
    \E i \in Slots :
        /\ Done(i) /\ BothFound(i) /\ TargetAnnotation(i) = Desired(i)
        /\ req[i].request.Operation = "UPDATE" /\ dryRun /\ strictMode
        /\ IsAllowedNoPatch(i, "skipped")

\* C7: an emitted patch is exactly [add {} at /metadata/annotations, add the
\* value at the escaped key path] when the new object has no annotation map,
\* and exactly [add the value at the escaped key path] when it has one.
C7_PatchShape ==
    \A i \in Slots :
        (Done(i) /\ resp[i].Patch # << >>) =>
            LET leaf == [op |-> "add", path |-> KeyPath,
                         value |-> [isObject |-> FALSE, str |-> Desired(i)]]
                container == [op |-> "add",
                              path |-> <<"/", "metadata", "/", "annotations">>,
                              value |-> [isObject |-> TRUE, str |-> << >>]]
            IN  /\ BothFound(i)
                /\ resp[i].Patch =
                      IF NewNS(i).annotations.isNil THEN <<container, leaf>> ELSE <<leaf>>

C7_Witness ==
    \E i \in Slots :
        /\ Done(i) /\ resp[i].Patch # << >>
        /\ NewNS(i).annotations = [isNil |-> FALSE, kv |-> {}]
        /\ Len(resp[i].Patch) = 1

\* C8: applying the emitted patch to the admitted object succeeds and yields the
\* original annotations with only the target key set to the desired value;
\* labels and every other annotation are untouched, a stale value is replaced.
C8_PatchFrame ==
    \A i \in Slots :
        (Done(i) /\ resp[i].Patch # << >>) =>
            LET after == applyPatch(NewNS(i), resp[i].Patch) IN
            /\ after.ok
            /\ after.ns.labels = NewNS(i).labels
            /\ ~after.ns.annotations.isNil
            /\ after.ns.annotations.kv =
                  {e \in NewNS(i).annotations.kv : e[1] # projectAnnotation}
                  \cup {<<projectAnnotation, Desired(i)>>}

C8_Witness ==
    \E i \in Slots :
        /\ Done(i) /\ resp[i].Patch # << >>
        /\ TargetAnnotation(i) = <<"stale">>
        /\ Cardinality(NewNS(i).annotations.kv) = 2
        /\ applyPatch(NewNS(i), resp[i].Patch).ok

\* C9: with dry-run on no decision carries a patch, and the status is "dry_run"
\* (allowed) exactly when both lookups succeeded and the annotation differs
\* from the desired value.
C9_DryRunNeverPatches ==
    \A i \in Slots :
        (Done(i) /\ dryRun) =>
            /\ resp[i].Patch = << >>
            /\ resp[i].PatchType = "none"
            /\ (resp[i].status = "dry_run") <=>
                  (BothFound(i) /\ TargetAnnotation(i) # Desired(i))
            /\ (resp[i].status = "dry_run") => resp[i].Allowed = TRUE

C9_Witness ==
    \E i \in Slots :
        /\ Done(i) /\ dryRun /\ BothFound(i)
        /\ TargetAnnotation(i) # Desired(i)
        /\ IsAllowedNoPatch(i, "dry_run")

C6_CorrectAnnotationIsFixedPoint ==
    \A i \in Slots :
        /\ (Done(i) /\ resp[i].Patch # << >>) =>
              LET after == applyPatch(NewNS(i), resp[i].Patch) IN
              /\ after.ok
              /\ \A again \in
                      {Request("Namespace", "CREATE", RawJSON(after.ns), RawNil)} \cup
                      {Request("Namespace", "UPDATE", RawJSON(after.ns), old) : old \in OldObjects} :
                    mutate(again, calls[i][1].ret, calls[i][2].ret)
                        = [Allowed |-> TRUE, Patch |-> << >>, PatchType |-> "none",
                           Message |-> << >>, status |-> "skipped"]
        /\ (/\ Done(i) /\ req[i].stamp.set
            /\ \/ calls[i] = << >>
               \/ /\ BothFound(i)
                  /\ calls[i][1].ret.id = req[i].stamp.c
                  /\ calls[i][2].ret.id = req[i].stamp.p) =>
              IsAllowedNoPatch(i, "skipped")

\* Two overlapping admissions both patched; the namespace, stamped by the first
\* to be persisted, is admitted again and skipped by the idempotence check
\* while the second patched response is still to be persisted.
C6_Witness ==
    \E i \in Slots, j \in Slots :
        /\ i # j
        /\ Done(j) /\ ~req[j].stamp.set /\ resp[j].Patch # << >>
        /\ Done(i) /\ req[i].stamp.set /\ BothFound(i)
        /\ calls[i][1].ret.id = req[i].stamp.c
        /\ calls[i][2].ret.id = req[i].stamp.p
        /\ req[i].request.Operation = "UPDATE"
        /\ IsAllowedNoPatch(i, "skipped")

\* C11: with strict mode on, a CREATE of a Namespace that has no project
\* label, or whose label names no existing project, is rejected.
C11_StrictRejectsUnlabelled ==
    \A i \in Slots :
        (/\ Done(i) /\ strictMode /\ ParsedNamespace(i)
         /\ req[i].request.Operation = "CREATE"
         /\ \/ ~LabelPresent(i)
            \/ ProjectFailed(i) /\ calls[i][2].ret.err = "not_found") =>
            resp[i].Allowed = FALSE

\* C12: a request for another kind than Namespace is allowed without a patch
\* with status "skipped" and without any RancherClient call, whether or not its
\* payload parses and whatever the strict flag.
C12_OtherKindIsSkipped ==
    \A i \in Slots :
        (Done(i) /\ req[i].request.Kind # "Namespace") =>
            /\ IsAllowedNoPatch(i, "skipped")
            /\ calls[i] = << >>

C12_Witness ==
    \E i \in Slots :
        /\ Done(i) /\ req[i].request.Kind = "Pod"
        /\ req[i].request.Object.state = "invalid" /\ strictMode
        /\ IsAllowedNoPatch(i, "skipped") /\ calls[i] = << >>

\* The old object is present, parses and carries the project label with the
\* value the new object carries, and the new object's annotation is not empty
SameLabelAndAnnotated(i) ==
    /\ req[i].request.OldObject.state = "json"
    /\ \E e \in req[i].request.OldObject.ns.labels.kv :
          e[1] = projectLabel /\ e[2] = LabelValue(i)
    /\ TargetAnnotation(i) # << >>

\* C13: an UPDATE carrying the project label is short-circuited (allowed, no
\* patch, "skipped", no RancherClient call) if and only if the old object is
\* present, parses, has the same project-label value and the new object's
\* annotation is not empty; otherwise GetClusterID is called and the request
\* is not failed.
C13_UpdateShortCircuitIff ==
    \A i \in Slots :
        (/\ Done(i) /\ ParsedNamespace(i) /\ LabelPresent(i)
         /\ req[i].request.Operation = "UPDATE") =>
            /\ (calls[i] = << >>) <=> SameLabelAndAnnotated(i)
            /\ (calls[i] = << >>) => IsAllowedNoPatch(i, "skipped")
            /\ (calls[i] # << >>) =>
                  (calls[i][1].fn = "GetClusterID" /\ resp[i].status # "error")

\* C14: a Namespace request whose new object does not parse is denied with
\* status "error" and without any RancherClient call, in strict and in
\* permissive mode.
C14_UnparseableIsError ==
    \A i \in Slots :
        (/\ Done(i) /\ req[i].request.Kind = "Namespace"
         /\ req[i].request.Object.state # "json") =>
            /\ resp[i].Allowed = FALSE
            /\ resp[i].status = "error"
            /\ resp[i].Patch = << >>
            /\ calls[i] = << >>

C14_Witness ==
    \E i \in Slots :
        /\ Done(i) /\ req[i].request.Kind = "Namespace"
        /\ req[i].request.Object.state = "invalid" /\ ~strictMode
        /\ resp[i].Allowed = FALSE /\ resp[i].status = "error"

-----------------------------------------------------------------------------
(* Properties of the resolver, read off the record of a call *)

\* The call has read its cache
Checked(p) == rc[p].pc \in {"remote", "backoff", "lock", "locked", "done"}

\* The call returned the value of the entry it read, without a remote attempt
ServedFromCache(p) ==
    /\ rc[p].pc = "done"
    /\ rc[p].log = << >>
    /\ rc[p].counted = <<"cache_hit">>
    /\ rc[p].ret = RetID(rc[p].entry.value)

\* The call counted a miss and went on to the remote call
Missed(p) ==
    /\ Checked(p)
    /\ rc[p].counted # << >>
    /\ rc[p].counted[1] = "cache_miss"
    /\ rc[p].pc = "remote" \/ rc[p].log # << >>

\* The call resolves again the key its caller has just resolved, and
\* ClearCache has not emptied the cache in between
Again(p) == Checked(p) /\ rc[p].prev.set /\ ~rc[p].prev.cleared

\* C15: an entry written at time w expires at w + cacheTTL; a call that reads
\* an entry at time now is served from the cache iff now < expiresAt; and a
\* call that resolves again a key whose entry expires at e, that entry neither
\* replaced nor cleared, is served the same value from the cache iff it reads
\* the cache before e, and otherwise counts a miss and goes to the backend.
C15_ReadIsHitIffBeforeExpiry ==
    \A p \in Goroutines :
        /\ rc[p].written.ok =>
              rc[p].written = cacheEntry(rc[p].value, rc[p].writtenAt + cacheTTL)
        /\ (Checked(p) /\ rc[p].entry.ok) =>
              /\ ServedFromCache(p) <=> rc[p].checkedAt < rc[p].entry.expiresAt
              /\ Missed(p) <=> rc[p].checkedAt >= rc[p].entry.expiresAt
        /\ Again(p) =>
              /\ (ServedFromCache(p) /\ rc[p].ret.id = rc[p].prev.id)
                    <=> rc[p].checkedAt < rc[p].prev.expiresAt
              /\ Missed(p) <=> rc[p].checkedAt >= rc[p].prev.expiresAt

\* A call reads, at the very time it expires, the entry its caller's previous
\* call left: the entry is still cached, the read is a miss and the backend is asked
C15_Witness ==
    \E p \in Goroutines :
        /\ Again(p)
        /\ cacheTTL > 0
        /\ rc[p].entry.ok
        /\ rc[p].checkedAt = rc[p].prev.expiresAt
        /\ rc[p].entry.expiresAt = rc[p].prev.expiresAt
        /\ Missed(p)
        /\ rc[p].log # << >>

\* C16: when a caller resolves again the key it has just resolved, ClearCache
\* has not emptied the cache in between and the entry the first call read or
\* wrote has not expired, the second call returns the identifier of the first,
\* is served from the cache and makes no remote attempt and no cache write: the
\* remote lookups of the two calls are those of the first.
C16_SecondCallIsServedFromCache ==
    \A p \in Goroutines :
        (Again(p) /\ rc[p].checkedAt < rc[p].prev.expiresAt) =>
            /\ rc[p].pc = "done"
            /\ rc[p].ret = RetID(rc[p].prev.id)
            /\ rc[p].log = << >>
            /\ rc[p].counted = <<"cache_hit">>
            /\ ~rc[p].written.ok

\* A project identifier is resolved a second time after the clock has moved,
\* and comes from the cache
C16_Witness ==
    \E p \in Goroutines :
        /\ Again(p)
        /\ rc[p].op = "project"
        /\ rc[p].checkedAt > 0
        /\ rc[p].checkedAt < rc[p].prev.expiresAt
        /\ rc[p].ret = RetID(rc[p].prev.id)
        /\ rc[p].log = << >>

Running(p) == rc[p].pc \notin {"idle", "done"}

\* The attempts of the call so far all failed with a retryable error
AllRetryable(p) ==
    /\ rc[p].log # << >>
    /\ \A n \in 1..Len(rc[p].log) : rc[p].log[n].err \in RetryableErrors

\* How a call's attempts are bounded
RetryBounded(p) ==
    /\ Len(rc[p].log) <= maxRetries + 1
    /\ Len(rc[p].waits) <= maxRetries
    /\ (rc[p].pc = "done" /\ AllRetryable(p) /\ rc[p].ret.err # "context") =>
          /\ Len(rc[p].log) = maxRetries + 1
          /\ Len(rc[p].log) = 4
          /\ rc[p].ret = RetErr("api", rc[p].log[4].err)
    /\ (rc[p].log # << >> /\ rc[p].log[1].err \in TerminalErrors) =>
          /\ Len(rc[p].log) = 1
          /\ rc[p].pc = "done"
          /\ rc[p].ret = RetErr("api", rc[p].log[1].err)
    /\ \A n \in 1..Len(rc[p].log) :
          rc[p].log[n].err = "" =>
              /\ n = Len(rc[p].log)
              /\ rc[p].pc \in {"lock", "locked", "done"}

\* C17: a call makes at most maxRetries + 1 = 4 attempts; one whose attempts
\* all fail with a retryable error and that does not return the context's
\* error makes exactly 4 and returns the last error; one whose first attempt
\* fails with a terminal error makes exactly that attempt; an attempt that
\* succeeds is the last.  Every call that has begun returns.
C17_RetryTerminates ==
    /\ [](\A p \in Goroutines : RetryBounded(p))
    /\ \A p \in Goroutines : Running(p) ~> (rc[p].pc = "done")

\* Four attempts, each failed with a retryable error, three waits, no
\* cancellation: the call has returned the error
C17_Witness ==
    \E p \in Goroutines :
        /\ rc[p].pc = "done"
        /\ ~rc[p].ctxDone
        /\ AllRetryable(p)
        /\ Len(rc[p].log) = 4
        /\ rc[p].waits = <<100, 200, 400>>
        /\ rc[p].ret.err = "api"

\* C18: isRetryableError is true of the Timeout, ServerTimeout,
\* TooManyRequests, ServiceUnavailable and InternalError errors and false of
\* NotFound, BadRequest, Forbidden, Unauthorized and every other error; an
\* attempt that fails with an error it is false of is the last of its call,
\* which returns that error without waiting.
C18_RetryableClassification ==
    \A p \in Goroutines :
        \A n \in 1..Len(rc[p].log) :
            LET a == rc[p].log[n] IN
            /\ a.retryable <=>
                  a.err \in {"Timeout", "ServerTimeout", "TooManyRequests",
                             "ServiceUnavailable", "InternalError"}
            /\ a.err \in {"NotFound", "BadRequest", "Forbidden", "Unauthorized"} =>
                  ~a.retryable
            /\ (a.err # "" /\ ~a.retryable) =>
                  /\ n = Len(rc[p].log)
                  /\ Len(rc[p].waits) = n - 1
                  /\ rc[p].pc = "done"
                  /\ rc[p].ret = RetErr("api", a.err)

\* A call retried a Timeout and an InternalError and returned on a Forbidden
C18_Witness ==
    \E p \in Goroutines :
        /\ rc[p].pc = "done"
        /\ rc[p].log = << Attempt("Timeout"), Attempt("InternalError"), Attempt("Forbidden") >>
        /\ rc[p].log[2].retryable
        /\ ~rc[p].log[3].retryable
        /\ Len(rc[p].waits) = 2
        /\ rc[p].ret = RetErr("api", "Forbidden")

\* The call waits between two attempts and its context is done
WaitingCancelled(p) == rc[p].pc = "backoff" /\ rc[p].ctxDone

\* C19: the next step of a call that waits between two attempts with its
\* context cancelled (or past its deadline) is to return the context's error:
\* the wait is not completed, no remote attempt is added, and neither cache
\* changes.
C19_CancelledWaitReturns ==
    [][\A p \in Goroutines :
          (WaitingCancelled(p) /\ rc'[p] # rc[p]) =>
              /\ rc'[p].pc = "done"
              /\ rc'[p].ret = RetErr("context", "")
              /\ rc'[p].log = rc[p].log
              /\ rc'[p].waits = rc[p].waits
              /\ ~rc'[p].written.ok
              /\ clusterCache' = clusterCache
              /\ projectCache' = projectCache]_vars

\* A call cancelled in its second wait has returned the context's error after
\* two attempts and one completed wait, with both caches still empty
C19_Witness ==
    \E p \in Goroutines :
        /\ rc[p].pc = "done"
        /\ rc[p].ctxDone
        /\ rc[p].ret = RetErr("context", "")
        /\ Len(rc[p].log) = 2
        /\ rc[p].waits = <<100>>
        /\ ~rc[p].written.ok
        /\ len(clusterCache) = 0
        /\ len(projectCache) = 0

\* C20 as stated: ClearCache empties both caches atomically.  No state that a
\* concurrent operation can read has the cluster cache emptied by a running
\* ClearCache while the project cache still holds an entry that was cached
\* when that ClearCache began, and no CacheStats has read the project cache in
\* such a state.
C20_ClearCacheIsAtomic ==
    /\ ~(admin = "between" /\ preClear.project # {})
    /\ ~stats.torn

\* C20 as the code has it: ClearCache empties the cluster cache and then the
\* project cache, each in one step under that cache's own write lock and never
\* holding both locks.  From the emptying of the cluster cache on, the cluster
\* cache holds no entry that was cached when the ClearCache began, and when
\* ClearCache has returned neither cache holds one; in between the project
\* cache may still hold such entries, and only there can they be read.
C20_ClearCacheEmptiesEachInTurn ==
    /\ admin = "cluster" => (clusterMu.w = "admin" /\ projectMu.w # "admin")
    /\ admin = "project" => (projectMu.w = "admin" /\ clusterMu.w # "admin")
    /\ admin \in {"idle", "between"} => (clusterMu.w # "admin" /\ projectMu.w # "admin")
    /\ admin \in {"between", "project", "idle"} => preClear.cluster = {}
    /\ admin = "idle" => preClear.project = {}
    /\ preClear.cluster \subseteq present(clusterCache)
    /\ preClear.project \subseteq present(projectCache)
    /\ ~(admin = "project" /\ stats.pc = "project")

\* CacheStats counted no cluster entry and one project entry that was cached
\* before the ClearCache running at the time; that ClearCache has since
\* returned and both caches are empty
C20_Witness ==
    /\ stats.pc = "done"
    /\ stats.torn
    /\ stats.clusterEntries = 0
    /\ stats.projectEntries = 1
    /\ admin = "idle"
    /\ len(clusterCache) = 0
    /\ len(projectCache) = 0

\* The entries of a cache that a step removes
removed(before, after) == {k \in DOMAIN before : before[k].ok /\ ~after[k].ok}

\* C21: whenever it runs, the sweep removes from either cache only entries
\* that a read at that instant takes for expired (not now < expiresAt), and
\* leaves every other entry as it was: a read finds a valid entry whether or
\* not the sweep has run.
C21_SweepRemovesOnlyExpired ==
    [][/\ (sweep.pc = "cluster" /\ sweep'.pc = "between") =>
            /\ \A k \in removed(clusterCache, clusterCache') :
                    ~hit(clusterCache[k], now)
            /\ \A k \in DOMAIN clusterCache :
                    hit(clusterCache[k], now) => clusterCache'[k] = clusterCache[k]
       /\ (sweep.pc = "project" /\ sweep'.pc = "idle") =>
            /\ \A k \in removed(projectCache, projectCache') :
                    ~hit(projectCache[k], now)
            /\ \A k \in DOMAIN projectCache :
                    hit(projectCache[k], now) => projectCache'[k] = projectCache[k]]_vars

\* The entry a finished call wrote has expired and is gone from the cluster
\* cache, which no ClearCache has emptied since: the sweep removed it
C21_Witness ==
    \E p \in Goroutines :
        /\ rc[p].pc = "done"
        /\ rc[p].op = "cluster"
        /\ rc[p].written.ok
        /\ ~rc[p].cleared
        /\ admin = "idle"
        /\ now > rc[p].written.expiresAt
        /\ ~clusterCache[key(rc[p])].ok

\* The items of a list whose spec.displayName is the string asked for
matching(items, name) ==
    {n \in 1..Len(items) : items[n].displayName = FieldString(name)}

\* The call's List has succeeded
Listed(p) ==
    /\ rc[p].op = "project"
    /\ rc[p].log # << >>
    /\ rc[p].log[Len(rc[p].log)].err = ""

\* C22: after a miss and a successful List, GetProjectID takes the name of
\* the item of least index whose display name is a string equal to the name
\* asked for, caches and returns it; items before it with another, a missing
\* or a non-string display name are passed over; when no item matches it
\* returns the not-found error, counts it and writes nothing.
C22_FirstMatchingProject ==
    \A p \in Goroutines :
        Listed(p) =>
            LET m == matching(rc[p].items, rc[p].name) IN
            IF m = {}
            THEN /\ rc[p].pc = "done"
                 /\ rc[p].ret = RetErr("not_found", "")
                 /\ ~rc[p].written.ok
            ELSE LET first == CHOOSE n \in m : \A k \in m : n <= k IN
                 /\ rc[p].pc \in {"lock", "locked", "done"}
                 /\ rc[p].value = rc[p].items[first].name
                 /\ rc[p].pc = "done" =>
                       /\ rc[p].ret = RetID(rc[p].items[first].name)
                       /\ rc[p].written.value = rc[p].items[first].name

\* The list held two projects called "platform": the call returned the first
C22_Witness ==
    \E p \in Goroutines :
        /\ Listed(p)
        /\ rc[p].pc = "done"
        /\ Cardinality(matching(rc[p].items, rc[p].name)) = 2
        /\ rc[p].items[1].name = <<"p-xyz789">>
        /\ rc[p].items[2].name = <<"p-abc123">>
        /\ rc[p].ret = RetID(<<"p-xyz789">>)

\* C23 as stated: a GetProjectID is never answered from an entry written for
\* another pair of cluster identifier and display name, also when these hold
\* ":".  Against a backend where every pair has a project of its own, a call
\* that returns an identifier returns the one of its own pair.
C23_PairsNeverShareAnEntry ==
    \A p \in Goroutines :
        (rc[p].pc = "done" /\ rc[p].ret.err = "") =>
            rc[p].ret.id = BackendID(rc[p].cid, rc[p].name)

\* Two calls for one key have both missed, fetched and written
BothWrote(p, q) ==
    /\ p # q
    /\ rc[p].pc = "done" /\ rc[q].pc = "done"
    /\ rc[p].op = rc[q].op
    /\ key(rc[p]) = key(rc[q])
    /\ rc[p].written.ok /\ rc[q].written.ok

\* The entry now cached for the key of a call
cached(c) == IF c.op = "cluster" THEN clusterCache[key(c)] ELSE projectCache[key(c)]

\* C24 as stated: the entries that two calls for one key write after both
\* missed carry the same value.
C24_ConcurrentWritesAreEquivalent ==
    \A p \in Goroutines, q \in Goroutines :
        BothWrote(p, q) => rc[p].written.value = rc[q].written.value

\* C24 as the code has it: each call caches and returns what its own fetch
\* gave it, and the entry cached after both is the one written last, so it is
\* one of the two; when both fetches gave the same identifier the cached value
\* is that identifier whichever write came last, and when the backend's answer
\* changed between the fetches the two entries differ.
C24_LastWriteOfWhatEachFetched ==
    \A p \in Goroutines, q \in Goroutines :
        BothWrote(p, q) =>
            /\ rc[p].written.value = rc[p].value
            /\ rc[p].ret = RetID(rc[p].value)
            /\ cached(rc[p]) \in {rc[p].written, rc[q].written}
            /\ rc[p].value = rc[q].value => cached(rc[p]).value = rc[p].value

\* Two calls for one cluster name both found no entry, fetched different
\* identifiers and wrote them; the cache holds the one of the second goroutine
C24_Witness ==
    /\ BothWrote("r1", "r2")
    /\ rc["r1"].op = "cluster"
    /\ ~rc["r1"].entry.ok /\ ~rc["r2"].entry.ok
    /\ rc["r1"].value # rc["r2"].value
    /\ cached(rc["r1"]).value = rc["r2"].value

\* The goroutine holds a lock of either cache, for reading or for writing
Holds(p) ==
    \/ p \in clusterMu.r \/ clusterMu.w = p
    \/ p \in projectMu.r \/ projectMu.w = p

\* C25: a resolver call or a HealthCheck that is inside a remote Get or List,
\* or waits between two attempts, holds neither clusterMu nor projectMu.
C25_NoLockAcrossRemoteCall ==
    \A p \in Goroutines : rc[p].pc \in {"remote", "backoff"} => ~Holds(p)

\* One goroutine waits to retry a cluster lookup that missed while the other
\* is inside a List of HealthCheck: both cache locks are free
C25_Witness ==
    /\ rc["r1"].pc = "backoff"
    /\ rc["r1"].op = "cluster"
    /\ rc["r1"].counted = <<"cache_miss">>
    /\ rc["r2"].pc = "remote"
    /\ rc["r2"].op = "health"
    /\ clusterMu = Unlocked
    /\ projectMu = Unlocked

\* The call of goroutine p ended with an error
CallFailed(p) == rc[p].pc = "done" /\ rc[p].ret.err # ""

\* C26: a lookup that fails because the backend reports not-found counts
\* not_found and not api_error, and a lookup that fails on a timeout, an
\* unavailable backend or exhausted retries counts api_error and not
\* not_found.
C26_FailuresCountedByKind ==
    \A p \in Goroutines :
        CallFailed(p) =>
            /\ (rc[p].ret.cause = "NotFound" \/ rc[p].ret.err = "not_found") =>
                   /\ \E i \in DOMAIN rc[p].counted : rc[p].counted[i] = "error_not_found"
                   /\ \A i \in DOMAIN rc[p].counted : rc[p].counted[i] # "error_api"
            /\ (rc[p].ret.err = "api" /\ isRetryableError(rc[p].ret.cause)) =>
                   /\ \E i \in DOMAIN rc[p].counted : rc[p].counted[i] = "error_api"
                   /\ \A i \in DOMAIN rc[p].counted : rc[p].counted[i] # "error_not_found"

\* The escaped annotation key inside the path of the patch's last operation
EscapedPart(i) ==
    LET path == resp[i].Patch[Len(resp[i].Patch)].path
    IN  SubSeq(path, Len(AnnotationsPath) + 2, Len(path))

\* How many of the first n characters of s are "~" or "/"
Specials(s, n) == Cardinality({m \in 1..n : s[m] \in {"~", "/"}})

\* C27: the escaped key has "~0" where the key has "~", "~1" where it has "/"
\* and the key's own character everywhere else, each character of the key
\* escaped once; and the RFC 6901 unescape of the escaped key is the key.
C27_EscapeIsOnePassAndInvertible ==
    \A i \in Slots :
        (pc[i] = "done" /\ resp[i].Patch # << >>) =>
            LET k == projectAnnotation
                e == EscapedPart(i)
            IN  /\ Len(e) = Len(k) + Specials(k, Len(k))
                /\ \A n \in 1..Len(k) :
                      LET m == n + Specials(k, n - 1) IN
                      IF k[n] = "~" THEN e[m] = "~" /\ e[m + 1] = "0"
                      ELSE IF k[n] = "/" THEN e[m] = "~" /\ e[m + 1] = "1"
                      ELSE e[m] = k[n]
                /\ unescapeJSONPointer(e) = k

\* A patch for the key "a/~1": its "/" becomes "~1" and its own "~1" becomes "~01"
C27_Witness ==
    /\ pc["a"] = "done"
    /\ resp["a"].Patch # << >>
    /\ projectAnnotation = <<"a", "/", "~", "1">>
    /\ EscapedPart("a") = <<"a", "~", "1", "~", "0", "1">>

\* What follows "/mutate/" in the path of request i, less one trailing "/"
NameInPath(i) ==
    LET rest == SubSeq(req[i].path, 4, Len(req[i].path))
    IN  IF rest # << >> /\ rest[Len(rest)] = "/"
        THEN SubSeq(rest, 1, Len(rest) - 1)
        ELSE rest

\* C28: the first resolver call of a request is GetClusterID with exactly the
\* part of the path after "/mutate/", less one trailing "/"; when that part
\* is empty or "mutate" the request is answered 400 with no admission
\* decision and no resolver call.
C28_ClusterNameFromPath ==
    \A i \in Slots :
        pc[i] # "idle" =>
            IF NameInPath(i) \in {<< >>, <<"mutate">>}
            THEN pc[i] = "BadRequest" /\ resp[i] = NoDecision /\ calls[i] = << >>
            ELSE /\ pc[i] = "BadRequest" => ~req[i].valid
                 /\ calls[i] # << >> =>
                       /\ calls[i][1].fn = "GetClusterID"
                       /\ calls[i][1].args = <<NameInPath(i)>>
                 /\ pc[i] = "GetClusterID" => calls[i] # << >>

\* /mutate/prod/ reached GetClusterID with "prod", and that call returned
C28_Witness ==
    /\ pc["a"] = "GetProjectID"
    /\ req["a"].path = <<"/", "mutate", "/", "prod", "/">>
    /\ calls["a"][1].fn = "GetClusterID"
    /\ calls["a"][1].args = << <<"prod">> >>

\* /mutate/mutate/ is answered 400
C28_WitnessRejected ==
    /\ pc["a"] = "BadRequest"
    /\ req["a"].valid
    /\ req["a"].path = <<"/", "mutate", "/", "mutate", "/">>

\* C29: the resolver calls of one request are GetClusterID, then at most
\* GetProjectID; GetProjectID is called only once GetClusterID has returned
\* without error, with the identifier GetClusterID returned and the value of
\* the project label; neither is called twice.
C29_ClusterThenProject ==
    \A i \in Slots :
        /\ Len(calls[i]) <= 2
        /\ Len(calls[i]) >= 1 => calls[i][1].fn = "GetClusterID"
        /\ Len(calls[i]) = 2 =>
              /\ calls[i][2].fn = "GetProjectID"
              /\ calls[i][1].ret.err = ""
              /\ calls[i][2].args = <<calls[i][1].ret.id, LabelValue(i)>>
        /\ pc[i] = "GetProjectID" => Len(calls[i]) = 2

\* Both calls were made and returned, for the label value "other"
C29_Witness ==
    /\ pc["a"] = "done"
    /\ Len(calls["a"]) = 2
    /\ calls["a"][1].ret = Found(ClusterIDList[1])
    /\ calls["a"][2].args = <<ClusterIDList[1], "other">>
    /\ calls["a"][2].ret.err = ""

\* C30: a decision mutate returned carries a patch exactly when its status is
\* "mutated", which is exactly when its patch type is JSONPatch; it is not
\* allowed exactly when its status is "denied" or "error"; and its status is
\* one of allowed, denied, error, skipped, mutated and dry_run.
C30_DecisionMatchesStatus ==
    \A i \in Slots :
        pc[i] = "done" =>
            /\ (resp[i].Patch # << >>) <=> (resp[i].status = "mutated")
            /\ (resp[i].status = "mutated") <=> (resp[i].PatchType = "JSONPatch")
            /\ (resp[i].PatchType # "JSONPatch") => (resp[i].PatchType = "none")
            /\ (~resp[i].Allowed) <=> (resp[i].status \in {"denied", "error"})
            /\ resp[i].status \in
                  {"allowed", "denied", "error", "skipped", "mutated", "dry_run"}

\* A request that was mutated: allowed, with a JSON patch of two operations
C30_Witness ==
    /\ pc["a"] = "done"
    /\ resp["a"].status = "mutated"
    /\ resp["a"].Allowed
    /\ resp["a"].PatchType = "JSONPatch"
    /\ Len(resp["a"].Patch) = 2

\* The call of goroutine p returns an error in this step
Fails(p) == rc[p].pc # "done" /\ rc'[p].pc = "done" /\ rc'[p].ret.err # ""

\* The call resolves again the key for which its caller's last call failed
AfterFailure(p) == Checked(p) /\ rc[p].prev.failed

\* C31: the step in which a call returns an error changes neither cache; a
\* call that returned an error wrote no entry and left the entry of its key
\* as it read it; and a call for the same key that follows it misses and goes
\* to the backend.
C31_FailuresAreNotCached ==
    /\ [][\A p \in CacheGoroutines :
            Fails(p) => clusterCache' = clusterCache /\ projectCache' = projectCache]_vars
    /\ [](\A p \in CacheGoroutines :
            /\ CallFailed(p) => ~rc[p].written.ok /\ cached(rc[p]) = rc[p].entry
            /\ AfterFailure(p) => Missed(p))

\* A second call for a cluster whose first lookup found no status.clusterName
\* has missed, with an expired entry of an earlier success still cached
C31_Witness ==
    /\ AfterFailure("r1")
    /\ rc["r1"].op = "cluster"
    /\ rc["r1"].pc = "remote"
    /\ rc["r1"].entry.ok
    /\ clusterCache[key(rc["r1"])] = rc["r1"].entry

\* The step is the cache read of the call of goroutine p
Reads(p) == rc[p].pc = "rlocked" /\ rc'[p].pc # "rlocked"

\* The step stores in entry k of the cache of op what a call has fetched
Replaces(op, k, after) ==
    \E p \in Goroutines :
        /\ rc[p].pc = "locked"
        /\ rc[p].op = op
        /\ key(rc[p]) = k
        /\ rc'[p].ret = RetID(rc[p].value)
        /\ after = rc'[p].written
        /\ after.value = rc[p].value

\* C32: the cache read of a call changes neither cache, whether it hits or
\* finds an expired entry, and a hit returns without a remote attempt; an
\* entry changes only when a call that fetched a value replaces it, when the
\* sweep deletes it or when ClearCache drops it.
C32_ReadsDoNotChangeTheCaches ==
    [][/\ \A p \in Goroutines :
              Reads(p) =>
                  /\ clusterCache' = clusterCache
                  /\ projectCache' = projectCache
                  /\ rc'[p].pc = "done" => rc'[p].log = << >> /\ ~rc'[p].written.ok
       /\ \A k \in DOMAIN clusterCache :
              clusterCache'[k] # clusterCache[k] =>
                  \/ Replaces("cluster", k, clusterCache'[k])
                  \/ sweep.pc = "cluster" /\ sweep'.pc = "between" /\ ~clusterCache'[k].ok
                  \/ admin = "cluster" /\ admin' = "between" /\ ~clusterCache'[k].ok
       /\ \A k \in DOMAIN projectCache :
              projectCache'[k] # projectCache[k] =>
                  \/ Replaces("project", k, projectCache'[k])
                  \/ sweep.pc = "project" /\ sweep'.pc = "idle" /\ ~projectCache'[k].ok
                  \/ admin = "project" /\ admin' = "idle" /\ ~projectCache'[k].ok]_vars

\* A hit after the clock has moved: the entry is cached as the earlier call
\* wrote it, with the expiry it had
C32_Witness ==
    /\ ServedFromCache("r1")
    /\ rc["r1"].prev.set
    /\ rc["r1"].checkedAt > 0
    /\ cached(rc["r1"]) = rc["r1"].entry
    /\ rc["r1"].entry.expiresAt = rc["r1"].prev.expiresAt
    /\ rc["r1"].entry.expiresAt < rc["r1"].checkedAt + cacheTTL

\* The goroutine runs HealthCheck, or HealthCheck has returned to it
InHealthCheck(p) == rc[p].pc # "idle" /\ rc[p].op = "health"

\* The attempts on the resource being checked follow the retry policy of the
\* resolver calls
HealthRetries(p) ==
    /\ Len(rc[p].log) <= maxRetries + 1
    /\ Len(rc[p].waits) <= maxRetries
    /\ \A n \in 1..(Len(rc[p].log) - 1) : rc[p].log[n].err \in RetryableErrors
    /\ (rc[p].pc = "done" /\ rc[p].ret.err = "api") =>
          /\ rc[p].log # << >>
          /\ rc[p].ret.cause = rc[p].log[Len(rc[p].log)].err
          /\ rc[p].ret.cause # ""
          /\ rc[p].ret.cause \in RetryableErrors => Len(rc[p].log) = maxRetries + 1
    /\ \A n \in 1..Len(rc[p].waits) :
          rc[p].waits[n] = min(initialBackoff * 2 ^ (n - 1), maxBackoff)

\* C33: HealthCheck lists the clusters until that succeeds or fails for good,
\* and the projects only after the clusters succeeded; it retries each as the
\* resolver calls do; it returns nil only when both succeeded and the first
\* failure otherwise; and none of its steps changes a cache or takes a lock.
C33_HealthCheckOrderAndFrame ==
    /\ [](\A p \in Goroutines :
            InHealthCheck(p) =>
                /\ rc[p].name \in {<<"clusters">>, <<"projects">>}
                /\ rc[p].name = <<"projects">> <=>
                       (rc[p].items # << >> /\ rc[p].items[1] = "clusters")
                /\ HealthRetries(p)
                /\ (rc[p].pc = "done" /\ rc[p].ret.err = "") <=>
                       rc[p].items = <<"clusters", "projects">>
                /\ (rc[p].pc = "done" /\ rc[p].ret.err # "" /\ rc[p].name = <<"clusters">>)
                       => rc[p].items = << >>
                /\ ~Holds(p)
                /\ ~rc[p].written.ok /\ ~rc[p].entry.ok)
    /\ [][\A p \in Goroutines :
            (InHealthCheck(p) /\ rc'[p] # rc[p]) =>
                /\ clusterCache' = clusterCache /\ projectCache' = projectCache
                /\ clusterMu' = clusterMu /\ projectMu' = projectMu]_vars

\* HealthCheck failed on the projects after the clusters were listed on the
\* second attempt, while the cluster cache holds an entry
C33_Witness ==
    /\ InHealthCheck("r1")
    /\ rc["r1"].pc = "done"
    /\ rc["r1"].items = <<"clusters">>
    /\ rc["r1"].ret = RetErr("api", "Forbidden")
    /\ \E k \in DOMAIN clusterCache : clusterCache[k].ok

\* C34: the k-th wait of a call is min(initialBackoff * 2^(k-1), maxBackoff),
\* which is 100, 200 and 400 milliseconds for k = 1, 2, 3; no wait exceeds
\* maxBackoff; a call waits once between two attempts and not after its last.
C34_BackoffSchedule ==
    \A p \in Goroutines :
        /\ Len(rc[p].waits) <= maxRetries
        /\ \A k \in 1..Len(rc[p].waits) :
              /\ rc[p].waits[k] = min(initialBackoff * 2 ^ (k - 1), maxBackoff)
              /\ rc[p].waits[k] = <<100, 200, 400>>[k]
              /\ rc[p].waits[k] <= maxBackoff
        /\ rc[p].pc = "remote" => Len(rc[p].waits) = Len(rc[p].log)
        /\ (rc[p].pc \in {"backoff", "lock", "locked", "done"} /\ rc[p].log # << >>) =>
              Len(rc[p].waits) = Len(rc[p].log) - 1

\* A call gave up after its fourth attempt, having waited 100, 200 and 400
C34_Witness ==
    /\ rc["r1"].pc = "done"
    /\ Len(rc["r1"].log) = 4
    /\ rc["r1"].waits = <<100, 200, 400>>
    /\ rc["r1"].ret.err = "api"

\* Whoever can hold a lock: the calls, ClearCache, CacheStats and the sweep
Holders == Goroutines \cup {"admin", "stats", "sweep"}

HoldsCluster(h) == h \in clusterMu.r \/ clusterMu.w = h

HoldsProject(h) == h \in projectMu.r \/ projectMu.w = h

\* The step in which a holder gives its lock back can be taken
CanRelease(h) ==
    IF h \in Goroutines THEN ENABLED (CheckCache(h) \/ WriteCache(h))
    ELSE IF h = "admin" THEN ENABLED (ClearCluster \/ ClearProject)
    ELSE IF h = "stats" THEN ENABLED (StatsCluster \/ StatsProject)
    ELSE ENABLED (SweepCluster \/ SweepProject)

\* C35: nobody holds clusterMu and projectMu at once, and whoever holds one
\* of them can release it without waiting for anything: no operation waits
\* for a lock while it holds one, so the operations cannot deadlock.
C35_LocksAreNeverNested ==
    \A h \in Holders :
        /\ ~(HoldsCluster(h) /\ HoldsProject(h))
        /\ (HoldsCluster(h) \/ HoldsProject(h)) => CanRelease(h)

\* The sweep holds the project lock while ClearCache holds the cluster lock
\* and a call of GetProjectID waits to store what it fetched
C35_Witness ==
    /\ projectMu.w = "sweep"
    /\ clusterMu.w = "admin"
    /\ rc["r1"].op = "project"
    /\ rc["r1"].pc = "lock"

\* How many lookup-error counters the call has incremented
ErrorsCounted(p) ==
    Cardinality({n \in DOMAIN rc[p].counted :
                    rc[p].counted[n] \in {"error_not_found", "error_api"}})

\* C36: a call that returned an error has incremented a lookup-error counter
\* exactly once, a call that returned an identifier has incremented none.
C36_EveryFailureIsCountedOnce ==
    \A p \in Goroutines :
        rc[p].pc = "done" =>
            IF rc[p].ret.err # "" THEN ErrorsCounted(p) = 1 ELSE ErrorsCounted(p) = 0

\* C37: for a body that parses as JSON, HandleMutate answers 400 or runs
\* mutate and answers with the review; it never ends in a runtime fault.
C37_ParsedBodyIsAnswered ==
    \A i \in Slots :
        (pc[i] # "idle" /\ req[i].valid) =>
            pc[i] \in {"BadRequest", "GetClusterID", "GetProjectID", "done"}

\* C38: once ClearCache has returned, no cache holds an entry whose value a
\* call fetched before that ClearCache began.
C38_ClearCacheOutlivesFetches ==
    admin = "idle" =>
        \A p \in Goroutines :
            (rc[p].pc = "done" /\ rc[p].written.ok /\ rc[p].overtaken) =>
                cached(rc[p]) # rc[p].written

\* The sweep deletes from the cluster cache, from the project cache
SweptCluster == sweep.pc = "cluster" /\ sweep'.pc = "between"

SweptProject == sweep.pc = "project" /\ sweep'.pc = "idle"

C40_StartNeverAborts ==
    /\ sweep.pc # "panic"
    /\ cacheTTL = 0 => \A p \in Goroutines : Checked(p) => Missed(p)
====
